---- MODULE Spec2Model ----
(***************************************************************************)
(* A model of the EUV event reader (src/EUV_read_events.py and its         *)
(* untranslated variant src/EUV_read_events_withnotrans.py).               *)
(*                                                                         *)
(* Strings are sequences of characters.  An ASCII character is the string  *)
(* of length one holding it; a non-ASCII character is written as its code  *)
(* point, "U+975E" for the character the script prints for NOT.  Indices   *)
(* and slices keep Python's 0-based, end-exclusive convention: Ch(s, i) is *)
(* s[i] and Slice(s, a, b) is s[a:b].                                      *)
(***************************************************************************)
EXTENDS Integers, Sequences, FiniteSets, TLC

VARIABLES
    pc,          \* the position of the running procedure
    text,        \* the buffer handed to the brace matcher / block extractors
    start_pos,   \* find_matching_brace's start_pos
    ret,         \* the index find_matching_brace returned
    keyword,     \* extract_block's keyword
    block,       \* what extract_block returned
    pos,         \* extract_option_blocks' scan position
    res,         \* extract_option_blocks' result list
    matched,     \* per block taken: its brace_start, brace_end and captured text
    events,      \* what parse_events returned
    localization, \* main's loc: the localization table
    line_content, \* write_event's content: the stripped source line
    human,       \* what humanize_code_line returned for it
    text_in,     \* the text handed to the stage that ran last
    rtext,       \* write_event's text: the line's text after that stage
    lines_in,    \* the list cleanup_empty_scopes was called with
    lines,       \* that list object (rebuilt in place when the scan ends)
    scan_i,      \* cleanup_empty_scopes' i
    to_delete,   \* cleanup_empty_scopes' to_delete
    deleted_by,  \* the pairs <<opener index, line index>> behind to_delete
    out_open,    \* whether main has opened the output file
    out,         \* the characters written to the output file
    cur,         \* how many events of the list main's loop has written
    written,     \* the script lines write_event has written, with their text
    starts       \* where in out each event written so far begins and ends,
                 \* and how many script lines were written before it

braceVars == <<start_pos, ret>>

extractVars == <<keyword, block, pos, res, matched, events>>

renderVars == <<localization, line_content, human, text_in, rtext>>

pruneVars == <<lines_in, lines, scan_i, to_delete, deleted_by>>

writeVars == <<out_open, out, cur, written, starts>>

vars == <<pc, text, braceVars, extractVars, renderVars, pruneVars, writeVars>>

\* ------------------------------------------------------------ bounds
MaxLen == 6

MaxFrags == 4

MaxEvents == 3

\* ------------------------------------------------------- string helpers
Ch(s, i) == s[i + 1]

Slice(s, a, b) == SubSeq(s, a + 1, b)

NotFound == -1

\* Python's None, and a value wrapped so that it never compares with None.
None == [some |-> FALSE, val |-> <<>>]

Some(v) == [some |-> TRUE, val |-> v]

Min(S) == CHOOSE x \in S : \A y \in S : x <= y

Max2(S) == CHOOSE x \in S : \A y \in S : x >= y

Max(p) == IF p[1] >= p[2] THEN p[1] ELSE p[2]

Whitespace == {" ", "\t", "\n", "\r"}

Digits == {"0", "1", "2", "3", "4", "5", "6", "7", "8", "9"}

\* [A-Za-z_]
Letters_ ==
    {"a", "b", "c", "d", "e", "f", "g", "h", "i", "j", "k", "l", "m", "n", "o",
     "p", "q", "r", "s", "t", "u", "v", "w", "x", "y", "z",
     "A", "B", "C", "D", "E", "F", "G", "H", "I", "J", "K", "L", "M", "N", "O",
     "P", "Q", "R", "S", "T", "U", "V", "W", "X", "Y", "Z", "_"}

\* [A-Za-z0-9_]
AsciiWordChars == Letters_ \cup Digits

\* The characters that are not \w: ASCII punctuation and whitespace, and the
\* punctuation the script prints (fullwidth colon, corner brackets, ellipsis).
\* Every other character, the ideographs among them, is a word character.
NonWordChars ==
    Whitespace \cup
    {"!", "\"", "#", "$", "%", "&", "'", "(", ")", "*", "+", ",", "-", ".", "/",
     ":", ";", "<", "=", ">", "?", "@", "[", "\\", "]", "^", "{", "|", "}",
     "~", "U+FF1A", "U+300C", "U+300D", "U+2026"}

IsWordChar(c) == c \notin NonWordChars

\* \b in front of a word character at index i
BoundaryBefore(s, i) == i = 0 \/ ~IsWordChar(Ch(s, i - 1))

\* \b behind a word character at index i - 1
BoundaryAfter(s, i) == i >= Len(s) \/ ~IsWordChar(Ch(s, i))

\* s[a:a+len(w)] == w
HasAt(s, a, w) ==
    /\ a + Len(w) <= Len(s)
    /\ Slice(s, a, a + Len(w)) = w

\* sub in s
Contains(s, sub) == \E p \in 0..(Len(s) - Len(sub)) : HasAt(s, p, sub)

\* str.find(c, from) for a single character c
Find(s, c, from) ==
    LET at == {k \in from..(Len(s) - 1) : Ch(s, k) = c}
    IN  IF at = {} THEN NotFound ELSE Min(at)

\* the index after the run of characters of S that starts at i (a greedy S*)
SkipWhile(s, i, S) ==
    Min({k \in i..(Len(s) - 1) : Ch(s, k) \notin S} \cup {Max(<<i, Len(s)>>)})

\* the index after the run of characters outside S that starts at i
SkipUntil(s, i, S) ==
    Min({k \in i..(Len(s) - 1) : Ch(s, k) \in S} \cup {Max(<<i, Len(s)>>)})

\* str.lstrip(chars)
LStrip(s, S) == Slice(s, SkipWhile(s, 0, S), Len(s))

\* str.rstrip(chars): up to the last character that is not of S
RStrip(s, S) ==
    LET keep == {k \in 0..(Len(s) - 1) : Ch(s, k) \notin S}
    IN  IF keep = {} THEN <<>> ELSE Slice(s, 0, Max2(keep) + 1)

\* str.strip(chars)
Strip(s, S) == LStrip(RStrip(s, S), S)

\* str.splitlines(): breaks at "\n", "\r\n" and "\r"; no empty last line
RECURSIVE SplitLines(_)
SplitLines(s) ==
    IF s = <<>> THEN <<>>
    ELSE LET e == SkipUntil(s, 0, {"\n", "\r"})
             after == IF e >= Len(s) THEN e
                      ELSE IF Ch(s, e) = "\r" /\ e + 1 < Len(s) /\ Ch(s, e + 1) = "\n"
                           THEN e + 2
                      ELSE e + 1
         IN  <<Slice(s, 0, e)>> \o SplitLines(Slice(s, after, Len(s)))

RECURSIVE SeqsUpTo(_, _)
SeqsUpTo(S, n) ==
    IF n = 0 THEN {<<>>}
    ELSE LET shorter == SeqsUpTo(S, n - 1)
         IN  shorter \cup {Append(s, c) : s \in {t \in shorter : Len(t) = n - 1}, c \in S}

\* ---------------------------------------------------------- brace matcher
\* One pass of find_matching_brace's for loop, at index i, on the loop's state:
\* the depth counter, and the index returned once the loop has returned.
BraceStep(t, i, st) ==
    IF st.returned # NotFound THEN st
    ELSE IF Ch(t, i) = "{" THEN [st EXCEPT !.depth = @ + 1]
    ELSE IF Ch(t, i) = "}"
         THEN IF st.depth - 1 = 0 THEN [depth |-> 0, returned |-> i]
              ELSE [st EXCEPT !.depth = @ - 1]
    ELSE st

\* The passes at lo, lo + 1, ... hi - 1 in that order (split in halves, so that
\* a long buffer does not nest the evaluation deeply).
RECURSIVE find_matching_brace_loop(_, _, _, _)
find_matching_brace_loop(t, lo, hi, st) ==
    IF hi <= lo \/ st.returned # NotFound THEN st
    ELSE IF hi = lo + 1 THEN BraceStep(t, lo, st)
    ELSE LET mid == (lo + hi) \div 2
             half == find_matching_brace_loop(t, lo, mid, st)
         IN  IF half.returned # NotFound THEN half
             ELSE find_matching_brace_loop(t, mid, hi, half)

\* A matcher that forgets nesting: it answers the first "}" after start_pos.
FirstCloseAfter(t, start) == Find(t, "}", start)

find_matching_brace(t, start) ==
    find_matching_brace_loop(t, start, Len(t),
                             [depth |-> 0, returned |-> NotFound]).returned

\* --------------------------------------------------------- block extractor
\* re: <keyword>\s*=\s*\{ tried at index s; the match's end, or NotFound
BlockPatternAt(t, s, kw) ==
    IF ~HasAt(t, s, kw) THEN NotFound
    ELSE LET eq == SkipWhile(t, s + Len(kw), Whitespace)
         IN  IF ~(eq < Len(t) /\ Ch(t, eq) = "=") THEN NotFound
             ELSE LET br == SkipWhile(t, eq + 1, Whitespace)
                  IN  IF br < Len(t) /\ Ch(t, br) = "{" THEN br + 1 ELSE NotFound

\* pattern.search(text, pos): the leftmost match at or after pos, as
\* [start, end], or None
BlockPatternSearch(t, kw, from) ==
    LET hits == {s \in from..(Len(t) - 1) : BlockPatternAt(t, s, kw) # NotFound}
    IN  IF hits = {} THEN None
        ELSE Some([start |-> Min(hits), end |-> BlockPatternAt(t, Min(hits), kw)])

\* A block extractor that, when the opening brace is never closed, takes the
\* rest of the text as the block.
extract_block_span_to_end(t, kw) ==
    LET m == BlockPatternSearch(t, kw, 0)
    IN  IF ~m.some THEN None
        ELSE LET brace_start == Find(t, "{", m.val.end - 1)
             IN  IF brace_start = NotFound THEN None
                 ELSE LET brace_end == find_matching_brace(t, brace_start)
                      IN  Some([start |-> m.val.start,
                                brace_start |-> brace_start,
                                brace_end |-> IF brace_end = NotFound THEN Len(t)
                                              ELSE brace_end])

\* extract_block up to its two early returns: the braces the block is cut at
extract_block_span(t, kw) ==
    LET m == BlockPatternSearch(t, kw, 0)
    IN  IF ~m.some THEN None
        ELSE LET brace_start == Find(t, "{", m.val.end - 1)
             IN  IF brace_start = NotFound THEN None
                 ELSE LET brace_end == find_matching_brace(t, brace_start)
                      IN  IF brace_end = NotFound THEN None
                          ELSE Some([start |-> m.val.start,
                                     brace_start |-> brace_start,
                                     brace_end |-> brace_end])

\* A block extractor that trims all whitespace, as it did before it was
\* changed to trim line breaks only.
extract_block_strip_all(t, kw) ==
    LET sp == extract_block_span(t, kw)
    IN  IF ~sp.some THEN None
        ELSE Some(Strip(Slice(t, sp.val.brace_start + 1, sp.val.brace_end), Whitespace))

extract_block(t, kw) ==
    LET sp == extract_block_span(t, kw)
    IN  IF ~sp.some THEN None
        ELSE Some(Strip(Slice(t, sp.val.brace_start + 1, sp.val.brace_end),
                        {"\r", "\n"}))

\* re.match(<field>\s*=\s*([^\s#]+), s): group 1, or <<>> when there is no match
AssignmentValue(s, field) ==
    IF ~HasAt(s, 0, field) THEN <<>>
    ELSE LET eq == SkipWhile(s, Len(field), Whitespace)
         IN  IF ~(eq < Len(s) /\ Ch(s, eq) = "=") THEN <<>>
             ELSE LET v == SkipWhile(s, eq + 1, Whitespace)
                  IN  Slice(s, v, SkipUntil(s, v, Whitespace \cup {"#"}))

kw_option == <<"o", "p", "t", "i", "o", "n">>

kw_name == <<"n", "a", "m", "e">>

kw_custom_tooltip ==
    <<"c", "u", "s", "t", "o", "m", "_", "t", "o", "o", "l", "t", "i", "p">>

\* A loop over the option's lines that files the name and the tooltips and
\* leaves their lines in the body as well.
RECURSIVE OptionFromLinesKeepingAll(_, _)
OptionFromLinesKeepingAll(ls, opt) ==
    IF ls = <<>> THEN opt
    ELSE LET raw_line == Head(ls)
             stripped == Strip(RStrip(raw_line, Whitespace), Whitespace)
             name == AssignmentValue(stripped, kw_name)
             tip == AssignmentValue(stripped, kw_custom_tooltip)
         IN  OptionFromLinesKeepingAll(Tail(ls),
                IF stripped = <<>> THEN opt
                ELSE IF Head(stripped) = "#"
                     THEN [opt EXCEPT !.lines = Append(@, raw_line)]
                ELSE IF name # <<>>
                     THEN [opt EXCEPT !.name = Some(name),
                                      !.lines = Append(@, raw_line)]
                ELSE IF tip # <<>>
                     THEN [opt EXCEPT !.tooltips = Append(@, tip),
                                      !.lines = Append(@, raw_line)]
                ELSE [opt EXCEPT !.lines = Append(@, raw_line)])

\* The for loop of extract_option_blocks over block_text.splitlines(), from the
\* option built so far.
RECURSIVE OptionFromLines(_, _)
OptionFromLines(ls, opt) ==
    IF ls = <<>> THEN opt
    ELSE LET raw_line == Head(ls)
             stripped == Strip(RStrip(raw_line, Whitespace), Whitespace)
             name == AssignmentValue(stripped, kw_name)
             tip == AssignmentValue(stripped, kw_custom_tooltip)
         IN  OptionFromLines(Tail(ls),
                IF stripped = <<>> THEN opt
                ELSE IF Head(stripped) = "#"
                     THEN [opt EXCEPT !.lines = Append(@, raw_line)]
                ELSE IF name # <<>> THEN [opt EXCEPT !.name = Some(name)]
                ELSE IF tip # <<>> THEN [opt EXCEPT !.tooltips = Append(@, tip)]
                ELSE [opt EXCEPT !.lines = Append(@, raw_line)])

\* One pass of extract_option_blocks' while loop at scan position p: None on
\* either break, else the block taken, the option built and the next position.
OptionScan(t, p) ==
    LET m == BlockPatternSearch(t, kw_option, p)
    IN  IF ~m.some THEN None
        ELSE LET brace_start == Find(t, "{", m.val.end - 1)
             IN  IF brace_start = NotFound THEN None
                 ELSE LET brace_end == find_matching_brace(t, brace_start)
                      IN  IF brace_end = NotFound THEN None
                          ELSE LET block_text ==
                                       Strip(Slice(t, brace_start + 1, brace_end),
                                             Whitespace)
                               IN  Some([start |-> m.val.start,
                                         brace_start |-> brace_start,
                                         brace_end |-> brace_end,
                                         block_text |-> block_text,
                                         pos |-> brace_end + 1,
                                         option |->
                                            OptionFromLines(SplitLines(block_text),
                                               [name |-> None, lines |-> <<>>,
                                                tooltips |-> <<>>])])

RECURSIVE extract_option_blocks_from(_, _)
extract_option_blocks_from(t, p) ==
    LET it == OptionScan(t, p)
    IN  IF ~it.some THEN <<>>
        ELSE <<it.val.option>> \o extract_option_blocks_from(t, it.val.pos)

extract_option_blocks(t) == extract_option_blocks_from(t, 0)

\* ------------------------------------------------------------ parse_events
EVENT_PREFIX == <<"f", "l", "a", "v", "o", "r", "_", "f", "r", "a">>

\* re: (<EVENT_PREFIX>\.\d+)\s*= tried at index s: [id_end, end], or None
EventPatternAt(t, s) ==
    IF ~HasAt(t, s, EVENT_PREFIX \o <<".">>) THEN None
    ELSE LET d == s + Len(EVENT_PREFIX) + 1
             id_end == SkipWhile(t, d, Digits)
             eq == SkipWhile(t, id_end, Whitespace)
         IN  IF id_end > d /\ eq < Len(t) /\ Ch(t, eq) = "="
             THEN Some([id_end |-> id_end, end |-> eq + 1])
             ELSE None

DigitValue(c) ==
    CASE c = "0" -> 0 [] c = "1" -> 1 [] c = "2" -> 2 [] c = "3" -> 3
      [] c = "4" -> 4 [] c = "5" -> 5 [] c = "6" -> 6 [] c = "7" -> 7
      [] c = "8" -> 8 [] c = "9" -> 9

\* int(<digits>)
RECURSIVE ToInt(_)
ToInt(ds) ==
    IF ds = <<>> THEN 0
    ELSE 10 * ToInt(SubSeq(ds, 1, Len(ds) - 1)) + DigitValue(ds[Len(ds)])

\* int(event_id.split(".")[1]): the digits after the prefix's dot
EventNum(event_id) == ToInt(Slice(event_id, Len(EVENT_PREFIX) + 1, Len(event_id)))

\* The body of the loop over pattern.finditer(code_text), from index `from`:
\* the events appended, in the order found, each with the braces it was cut at.
RECURSIVE EventsFound(_, _)
EventsFound(t, from) ==
    LET hits == {s \in from..(Len(t) - 1) : EventPatternAt(t, s).some}
    IN  IF hits = {} THEN <<>>
        ELSE LET s == Min(hits)
                 m == EventPatternAt(t, s).val
                 event_id == Slice(t, s, m.id_end)
                 brace_start == Find(t, "{", m.end)
                 brace_end == IF brace_start = NotFound THEN NotFound
                              ELSE find_matching_brace(t, brace_start)
             IN  (IF brace_end = NotFound THEN <<>>
                  ELSE <<[id |-> event_id,
                          num |-> EventNum(event_id),
                          start |-> s,
                          block |-> Slice(t, brace_start + 1, brace_end),
                          brace_start |-> brace_start,
                          brace_end |-> brace_end]>>)
                 \o EventsFound(t, m.end)

\* list.sort(key=num) is stable: an element goes after every element whose key
\* is not greater.
RECURSIVE SortByNum(_)
\* An insertion that puts an element before the elements of equal key.
InsertBeforeEqual(sorted, e) ==
    LET n == Cardinality({k \in 1..Len(sorted) : sorted[k].num < e.num})
    IN  SubSeq(sorted, 1, n) \o <<e>> \o SubSeq(sorted, n + 1, Len(sorted))

InsertByNum(sorted, e) ==
    LET n == Cardinality({k \in 1..Len(sorted) : sorted[k].num <= e.num})
    IN  SubSeq(sorted, 1, n) \o <<e>> \o SubSeq(sorted, n + 1, Len(sorted))

SortByNum(es) ==
    IF es = <<>> THEN <<>>
    ELSE InsertByNum(SortByNum(SubSeq(es, 1, Len(es) - 1)), es[Len(es)])

EventOf(f) == [id |-> f.id, num |-> f.num, block |-> f.block]

parse_events(code_text) ==
    LET found == EventsFound(code_text, 0)
    IN  SortByNum([k \in 1..Len(found) |-> EventOf(found[k])])


\* ------------------------------------------------------------ dictionaries
\* CODE_TOKEN_MAP, SUBJECT_MAP, LEVEL_MAP and SIGN_MAP map identifiers to the
\* phrases printed for them.  CODE_TOKEN_MAP lists the entries for the
\* identifiers that occur in the scripts of this model.
CODE_TOKEN_MAP ==
       (<<"O", "R">>
           :> <<"U+6216">>)
    @@ (<<"A", "N", "D">>
           :> <<"U+4E14">>)
    @@ (<<"N", "O", "T">>
           :> <<"U+975E">>)
    @@ (<<"i", "f">>
           :> <<"U+5982", "U+679C">>)
    @@ (<<"e", "l", "s", "e">>
           :> <<"U+5426", "U+5219">>)
    @@ (<<"y", "e", "s">>
           :> <<"U+662F">>)
    @@ (<<"n", "o">>
           :> <<"U+5426">>)
    @@ (<<"h", "a", "s", "_", "r", "u", "l", "e", "r">>
           :> <<"U+5B58", "U+5728", "U+7EDF", "U+6CBB", "U+8005">>)
    @@ (<<"i", "n", "_", "u", "n", "i", "o", "n", "_", "w", "i", "t", "h">>
           :> <<"U+8054", "U+7EDF">>)
    @@ (<<"r", "u", "l", "e", "r">>
           :> <<"U+7EDF", "U+6CBB", "U+8005">>)
    @@ (<<"r", "u", "l", "e", "r", "_", "o", "r", "_", "r", "e", "g", "e", "n", "t">>
           :> <<"U+7EDF", "U+6CBB", "U+8005", "U+6216", "U+6444", "U+653F">>)
    @@ (<<"s", "a", "v", "e", "_", "s", "c", "o", "p", "e", "_", "a", "s">>
           :> <<"U+4FDD", "U+5B58", "U+4F5C", "U+7528", "U+57DF">>)
    @@ (<<"m", "o", "d", "i", "f", "i", "e", "r">>
           :> <<"U+4FEE", "U+6B63">>)
    @@ (<<"t", "y", "p", "e">>
           :> <<"U+7C7B", "U+578B">>)
    @@ (<<"l", "i", "m", "i", "t">>
           :> <<"U+9650", "U+5236", "U+8303", "U+56F4">>)
    @@ (<<"r", "o", "o", "t">>
           :> <<"U+672C", "U+56FD">>)
    @@ (<<"a", "d", "d", "_", "s", "t", "a", "b", "i", "l", "i", "t", "y">>
           :> <<"U+7A33", "U+5B9A", "U+5EA6", "U+53D8", "U+5316">>)
    @@ (<<"s", "t", "a", "b", "i", "l", "i", "t", "y">>
           :> <<"U+7A33", "U+5B9A", "U+5EA6">>)
    @@ (<<"e", "x", "i", "s", "t", "s">>
           :> <<"U+5B58", "U+5728">>)
    @@ (<<"s", "c", "o", "p", "e">>
           :> <<"U+4F5C", "U+7528", "U+57DF">>)

SUBJECT_MAP ==
       (<<"s", "t", "a", "b", "i", "l", "i", "t", "y">>
           :> <<"U+7A33", "U+5B9A", "U+5EA6">>)
    @@ (<<"l", "e", "g", "i", "t", "i", "m", "a", "c", "y">>
           :> <<"U+6B63", "U+7EDF", "U+6027">>)
    @@ (<<"c", "u", "l", "t", "u", "r", "a", "l", "_", "i", "n", "f", "l", "u", "e", "n", "c", "e">>
           :> <<"U+6587", "U+5316", "U+5F71", "U+54CD">>)
    @@ (<<"p", "o", "p", "_", "s", "a", "t", "i", "s", "f", "a", "c", "t", "i", "o", "n">>
           :> <<"U+4EBA", "U+7FA4", "U+6EE1", "U+610F", "U+5EA6">>)
    @@ (<<"p", "r", "e", "s", "t", "i", "g", "e">>
           :> <<"U+5A01", "U+671B">>)
    @@ (<<"e", "s", "t", "a", "t", "e", "_", "s", "a", "t", "i", "s", "f", "a", "c", "t", "i", "o", "n">>
           :> <<"U+9636", "U+7EA7", "U+6EE1", "U+610F", "U+5EA6">>)
    @@ (<<"w", "a", "r", "_", "e", "x", "h", "a", "u", "s", "t", "i", "o", "n">>
           :> <<"U+538C", "U+6218", "U+5EA6">>)
    @@ (<<"g", "o", "v", "e", "r", "n", "m", "e", "n", "t", "_", "p", "o", "w", "e", "r">>
           :> <<"U+6B63", "U+7EDF", "U+6027">>)
    @@ (<<"l", "i", "b", "e", "r", "t", "y", "_", "d", "e", "s", "i", "r", "e">>
           :> <<"U+72EC", "U+7ACB", "U+503E", "U+5411">>)

LEVEL_MAP ==
       (<<"w", "e", "a", "k">>
           :> <<"U+8F7B", "U+5FAE">>)
    @@ (<<"m", "i", "l", "d">>
           :> <<"U+5C0F", "U+5E45">>)
    @@ (<<"s", "e", "v", "e", "r", "e">>
           :> <<"U+4E25", "U+91CD">>)
    @@ (<<"e", "x", "t", "r", "e", "m", "e">>
           :> <<"U+6781", "U+5927">>)
    @@ (<<"u", "l", "t", "i", "m", "a", "t", "e">>
           :> <<"U+6781", "U+7AEF">>)

SIGN_MAP ==
       (<<"b", "o", "n", "u", "s">>
           :> <<"U+63D0", "U+5347">>)
    @@ (<<"p", "e", "n", "a", "l", "t", "y">>
           :> <<"U+964D", "U+4F4E">>)
    @@ (<<"p", "l", "u", "s">>
           :> <<"U+589E", "U+52A0">>)

static_macros ==
       (<<"R", "O", "O", "T", ".", "G", "e", "t", "C", "o", "u", "n", "t", "r", "y", ".", "G", "e", "t", "N", "a", "m", "e">>
           :> <<"U+6CD5", "U+5170", "U+897F">>)
    @@ (<<"R", "O", "O", "T", ".", "G", "e", "t", "C", "o", "u", "n", "t", "r", "y", ".", "G", "e", "t", "N", "a", "m", "e", "W", "i", "t", "h", "N", "o", "T", "o", "o", "l", "t", "i", "p">>
           :> <<"U+6CD5", "U+5170", "U+897F">>)
    @@ (<<"r", "u", "l", "e", "r", "_", "f", "r", "a", ".", "G", "e", "t", "N", "a", "m", "e">>
           :> <<"U+8DEF", "U+6613", "U+5341", "U+56DB">>)
    @@ (<<"r", "u", "l", "e", "r", "_", "f", "r", "a", ".", "G", "e", "t", "S", "h", "o", "r", "t", "N", "a", "m", "e", "W", "i", "t", "h", "N", "o", "T", "o", "o", "l", "t", "i", "p">>
           :> <<"U+8DEF", "U+6613", "U+5341", "U+56DB">>)

zh_monthly_chance == <<"U+6708", "U+89E6", "U+53D1", "U+6982", "U+7387">>

zh_key_label == <<"U+4F5C", "U+54C1", " ", "=", " ", "U+300C">>

zh_modifier_label == <<"U+4FEE", "U+6B63", " ", "=", " ", "U+300C">>

zh_type_label == <<"U+7C7B", "U+578B", " ", "=", " ", "U+300C">>

zh_any_of ==
    <<"U+6EE1", "U+8DB3", "U+4EE5", "U+4E0B", "U+4EFB", "U+4E00", "U+6761", "U+4EF6",
      "U+FF1A">>

zh_all_of ==
    <<"U+540C", "U+65F6", "U+6EE1", "U+8DB3", "U+4EE5", "U+4E0B", "U+5168", "U+90E8",
      "U+6761", "U+4EF6", "U+FF1A">>

zh_none_of ==
    <<"U+4E0D", "U+6EE1", "U+8DB3", "U+4EE5", "U+4E0B", "U+6761", "U+4EF6", "U+FF1A">>

zh_not == <<"U+975E">>

zh_not_satisfied == <<"U+4E0D", "U+6EE1", "U+8DB3">>

hdr_desc == <<"U+63CF", "U+8FF0", ":", "\n">>

hdr_hist == <<"U+5386", "U+53F2", "U+4FE1", "U+606F", "U+FF1A", "\n">>

hdr_dhe == <<"t", "a", "g", "&", "U+65F6", "U+95F4", "U+FF1A", "\n">>

hdr_trigger == <<"U+8981", "U+6C42", "U+FF1A", "\n">>

hdr_immediate == <<"U+7ACB", "U+5373", "U+89E6", "U+53D1", "U+FF1A", "\n">>

hdr_option == <<"U+9009", "U+9879", "U+FF1A", "\n">>

kw_title == <<"t", "i", "t", "l", "e">>

kw_desc == <<"d", "e", "s", "c">>

kw_historical_info ==
    <<"h", "i", "s", "t", "o", "r", "i", "c", "a", "l", "_", "i", "n", "f", "o">>

kw_key == <<"k", "e", "y">>

kw_modifier == <<"m", "o", "d", "i", "f", "i", "e", "r">>

kw_type == <<"t", "y", "p", "e">>

kw_monthly_chance ==
    <<"m", "o", "n", "t", "h", "l", "y", "_", "c", "h", "a", "n", "c", "e">>

kw_OR == <<"O", "R">>

kw_AND == <<"A", "N", "D">>

kw_NOT == <<"N", "O", "T">>

italic_tag == <<"#", "i", "t", "a", "l", "i", "c">>

target_character_open ==
    <<"[", "t", "a", "r", "g", "e", "t", "_", "c", "h", "a", "r", "a", "c", "t", "e",
      "r", ".">>

target_character_closed ==
    <<"[", "t", "a", "r", "g", "e", "t", "_", "c", "h", "a", "r", "a", "c", "t", "e",
      "r", "]">>

noise1 ==
    <<"e", "v", "e", "n", "t", "_", "i", "l", "l", "u", "s", "t", "r", "a", "t", "i",
      "o", "n", "_", "e", "s", "t", "a", "t", "e", "_", "e", "f", "f", "e", "c", "t">>

noise2 ==
    <<"e", "v", "e", "n", "t", "_", "i", "l", "l", "u", "s", "t", "r", "a", "t", "i",
      "o", "n", "_", "g", "o", "v", "e", "r", "n", "m", "e", "n", "t", "_", "e", "s",
      "t", "a", "t", "e", "_", "e", "f", "f", "e", "c", "t">>

noise3 ==
    <<"e", "v", "e", "n", "t", "_", "i", "l", "l", "u", "s", "t", "r", "a", "t", "i",
      "o", "n", "_", "p", "o", "p", "t", "y", "p", "e", "_", "e", "f", "f", "e", "c",
      "t">>

noise4 == <<"s", "a", "v", "e", "_", "s", "c", "o", "p", "e", "_", "a", "s">>


LQ == "U+300C"

RQ == "U+300D"

Quoted(v) == <<LQ>> \o v \o <<RQ>>

\* loc.get(key, default)
LocGet(loc, key, default) == IF key \in DOMAIN loc THEN loc[key] ELSE default

\* str.replace(old, new)
RECURSIVE Replace(_, _, _)
Replace(s, old, new) ==
    IF s = <<>> THEN <<>>
    ELSE IF HasAt(s, 0, old) THEN new \o Replace(Slice(s, Len(old), Len(s)), old, new)
    ELSE <<Head(s)>> \o Replace(Tail(s), old, new)

\* ----------------------------------------------------------- render_text
\* re.sub(r"#italic\s*", "", text)
RECURSIVE RemoveItalic(_)
RemoveItalic(s) ==
    IF s = <<>> THEN <<>>
    ELSE IF HasAt(s, 0, italic_tag)
         THEN RemoveItalic(Slice(s, SkipWhile(s, Len(italic_tag), Whitespace), Len(s)))
    ELSE <<Head(s)>> \o RemoveItalic(Tail(s))

\* re.search(r"'([^']+)'", inner): group 1, or <<>> when there is no match
QuotedKey(inner) ==
    LET ends(q) == SkipUntil(inner, q + 1, {"'"})
        hits == {q \in 0..(Len(inner) - 1) :
                    /\ Ch(inner, q) = "'"
                    /\ ends(q) > q + 1
                    /\ ends(q) < Len(inner)}
    IN  IF hits = {} THEN <<>> ELSE Slice(inner, Min(hits) + 1, ends(Min(hits)))

repl_bracket(inner, loc) ==
    IF inner \in DOMAIN static_macros THEN Quoted(static_macros[inner])
    ELSE LET key == QuotedKey(inner)
             val == LocGet(loc, key, <<>>)
         IN  IF key # <<>> /\ val # <<>> THEN Quoted(val)
             ELSE <<"[">> \o inner \o <<"]">>

\* re.sub(r"\[([^\]]+)\]", repl_bracket, text), from index i
RECURSIVE ExpandBrackets(_, _, _)
ExpandBrackets(s, i, loc) ==
    IF i >= Len(s) THEN <<>>
    ELSE LET close == SkipUntil(s, i + 1, {"]"})
         IN  IF Ch(s, i) = "[" /\ close > i + 1 /\ close < Len(s)
             THEN repl_bracket(Slice(s, i + 1, close), loc)
                     \o ExpandBrackets(s, close + 1, loc)
             ELSE <<Ch(s, i)>> \o ExpandBrackets(s, i + 1, loc)

\* re.sub(r"\[(target_character)\.[^\]]+\]", r"[\1]", text), from index i
RECURSIVE CollapseTargetCharacter(_, _)
CollapseTargetCharacter(s, i) ==
    IF i >= Len(s) THEN <<>>
    ELSE LET from == i + Len(target_character_open)
             close == SkipUntil(s, from, {"]"})
         IN  IF HasAt(s, i, target_character_open) /\ close > from /\ close < Len(s)
             THEN target_character_closed \o CollapseTargetCharacter(s, close + 1)
             ELSE <<Ch(s, i)>> \o CollapseTargetCharacter(s, i + 1)

render_text(t, loc) ==
    IF t = <<>> THEN t
    ELSE CollapseTargetCharacter(
            ExpandBrackets(Replace(RemoveItalic(t), <<"#", "!">>, <<>>), 0, loc), 0)

\* ---------------------------------------------------- replace_colon_keys
\* COLON_KEY_RE tried at index i: [key, end], or None
ColonKeyAt(s, i) ==
    IF ~(BoundaryBefore(s, i) /\ Ch(s, i) \in Letters_) THEN None
    ELSE LET colon == SkipWhile(s, SkipWhile(s, i, AsciiWordChars), Whitespace)
         IN  IF ~(colon < Len(s) /\ Ch(s, colon) = ":") THEN None
             ELSE LET k == SkipWhile(s, colon + 1, Whitespace)
                      e == SkipWhile(s, k, AsciiWordChars)
                  IN  IF e > k THEN Some([key |-> Slice(s, k, e), end |-> e])
                      ELSE None

\* COLON_KEY_RE.sub(repl, text), from index i
RECURSIVE ColonKeysFrom(_, _, _)
ColonKeysFrom(s, i, loc) ==
    IF i >= Len(s) THEN <<>>
    ELSE LET m == ColonKeyAt(s, i)
         IN  IF m.some
             THEN (IF LocGet(loc, m.val.key, <<>>) # <<>>
                   THEN Quoted(loc[m.val.key])
                   ELSE Slice(s, i, m.val.end))
                     \o ColonKeysFrom(s, m.val.end, loc)
             ELSE <<Ch(s, i)>> \o ColonKeysFrom(s, i + 1, loc)

replace_colon_keys(t, loc) == ColonKeysFrom(t, 0, loc)

\* -------------------------------------------------- translate_code_tokens
LEVELS == DOMAIN LEVEL_MAP

SIGNS == {<<"b", "o", "n", "u", "s">>, <<"p", "e", "n", "a", "l", "t", "y">>,
          <<"p", "l", "u", "s">>}

\* SUBJECT_LEVEL_SIGN_RE.match(token): its three groups, or None
SubjectLevelSign(token) ==
    LET splits == {<<lv, sg>> \in LEVELS \X SIGNS :
                      LET tail == <<"_">> \o lv \o <<"_">> \o sg
                          n == Len(token) - Len(tail)
                      IN  /\ n >= 1
                          /\ HasAt(token, n, tail)
                          /\ \A k \in 0..(n - 1) : Ch(token, k) \in Letters_}
    IN  IF splits = {} THEN None
        ELSE LET p == CHOOSE q \in splits : TRUE
             IN  Some([subject |-> Slice(token, 0,
                                         Len(token) - Len(p[1]) - Len(p[2]) - 2),
                       level |-> p[1],
                       sign |-> p[2]])

\* A token translation that looks the whole token up before it tries to
\* decompose it.
TokenReplWholeFirst(token) ==
    IF token \in DOMAIN CODE_TOKEN_MAP THEN CODE_TOKEN_MAP[token]
    ELSE LET m == SubjectLevelSign(token)
         IN  IF m.some
             THEN LocGet(SUBJECT_MAP, m.val.subject, m.val.subject)
                     \o LocGet(LEVEL_MAP, m.val.level, m.val.level)
                     \o LocGet(SIGN_MAP, m.val.sign, m.val.sign)
             ELSE token

\* A token translation that drops a part it has no entry for.
TokenReplNoFallback(token) ==
    LET m == SubjectLevelSign(token)
    IN  IF m.some
        THEN LocGet(SUBJECT_MAP, m.val.subject, <<>>)
                \o LocGet(LEVEL_MAP, m.val.level, <<>>)
                \o LocGet(SIGN_MAP, m.val.sign, <<>>)
        ELSE LocGet(CODE_TOKEN_MAP, token, token)

\* repl of translate_code_tokens
TokenRepl(token) ==
    LET m == SubjectLevelSign(token)
    IN  IF m.some
        THEN LocGet(SUBJECT_MAP, m.val.subject, m.val.subject)
                \o LocGet(LEVEL_MAP, m.val.level, m.val.level)
                \o LocGet(SIGN_MAP, m.val.sign, m.val.sign)
        ELSE LocGet(CODE_TOKEN_MAP, token, token)

\* TOKEN_RE tried at index i: the match's end, or NotFound
TokenAt(s, i) ==
    IF ~(BoundaryBefore(s, i) /\ Ch(s, i) \in Letters_) THEN NotFound
    ELSE LET e == SkipWhile(s, i, AsciiWordChars)
         IN  IF BoundaryAfter(s, e) THEN e ELSE NotFound

\* TOKEN_RE.sub(repl, line), from index i
RECURSIVE TokensFrom(_, _)
TokensFrom(s, i) ==
    IF i >= Len(s) THEN <<>>
    ELSE LET e == TokenAt(s, i)
         IN  IF e # NotFound THEN TokenRepl(Slice(s, i, e)) \o TokensFrom(s, e)
             ELSE <<Ch(s, i)>> \o TokensFrom(s, i + 1)

translate_code_tokens(line) == TokensFrom(line, 0)

\* ---------------------------------------------------- beautify_logic_line
\* re.match(<kw>\s*=\s*\{, s): it matches at the start of s
IsBlockHeader(s, kw) == BlockPatternAt(s, 0, kw) # NotFound

\* A beautifier that rewrites a header only when the header is the whole line.
beautify_logic_line_exact(content, t) ==
    LET s_content == Strip(content, Whitespace)
        s_text == Strip(t, Whitespace)
    IN  IF s_text = <<>> THEN t
        ELSE IF s_text \in {<<"{">>, <<"}">>} THEN t
        ELSE IF Find(s_content, "{", 0) # NotFound /\ Find(s_content, "}", 0) # NotFound
             THEN t
        ELSE IF BlockPatternAt(s_content, 0, kw_OR) = Len(s_content) THEN zh_any_of
        ELSE IF BlockPatternAt(s_content, 0, kw_AND) = Len(s_content) THEN zh_all_of
        ELSE IF BlockPatternAt(s_content, 0, kw_NOT) = Len(s_content) THEN zh_none_of
        ELSE t

\* A beautifier that looks for the two braces of a one-line block in the text
\* it is given instead of the source line.
beautify_logic_line_on_text(content, t) ==
    LET s_content == Strip(content, Whitespace)
        s_text == Strip(t, Whitespace)
    IN  IF s_text = <<>> THEN t
        ELSE IF s_text \in {<<"{">>, <<"}">>} THEN t
        ELSE IF Find(s_text, "{", 0) # NotFound /\ Find(s_text, "}", 0) # NotFound
             THEN t
        ELSE IF IsBlockHeader(s_content, kw_OR) THEN zh_any_of
        ELSE IF IsBlockHeader(s_content, kw_AND) THEN zh_all_of
        ELSE IF IsBlockHeader(s_content, kw_NOT) THEN zh_none_of
        ELSE t

beautify_logic_line(content, t) ==
    LET s_content == Strip(content, Whitespace)
        s_text == Strip(t, Whitespace)
    IN  IF s_text = <<>> THEN t
        ELSE IF s_text \in {<<"{">>, <<"}">>} THEN t
        ELSE IF Find(s_content, "{", 0) # NotFound /\ Find(s_content, "}", 0) # NotFound
             THEN t
        ELSE IF IsBlockHeader(s_content, kw_OR) THEN zh_any_of
        ELSE IF IsBlockHeader(s_content, kw_AND) THEN zh_all_of
        ELSE IF IsBlockHeader(s_content, kw_NOT) THEN zh_none_of
        ELSE t

\* ------------------------------------------------------------ strip_braces
strip_braces(t) ==
    RStrip(Replace(Replace(Replace(Replace(Replace(t,
        <<"{">>, <<>>), <<"}">>, <<>>), <<"=">>, <<":">>), <<"?">>, <<>>),
        zh_not, zh_not_satisfied), Whitespace)

\* ------------------------------------------------------ humanize_code_line
\* re.match(r"monthly_chance\s*=\s*([-\d]+)", s): group 1, or <<>>
MonthlyChanceValue(s) ==
    IF ~HasAt(s, 0, kw_monthly_chance) THEN <<>>
    ELSE LET eq == SkipWhile(s, Len(kw_monthly_chance), Whitespace)
         IN  IF ~(eq < Len(s) /\ Ch(s, eq) = "=") THEN <<>>
             ELSE LET v == SkipWhile(s, eq + 1, Whitespace)
                  IN  Slice(s, v, SkipWhile(s, v, Digits \cup {"-"}))

\* The name-prefixes of the directives that are never shown.
NoisePrefixes == {noise1, noise2, noise3, noise4}

\* A classification that prints nothing for an identifier that has no entry
\* in the localization table.
humanize_code_line_no_default(line, loc) ==
    LET s == Strip(line, Whitespace)
        chance == MonthlyChanceValue(s)
        key == AssignmentValue(s, kw_key)
        modifier == AssignmentValue(s, kw_modifier)
        type == AssignmentValue(s, kw_type)
    IN  IF s = <<>> THEN Some(<<>>)
        ELSE IF chance # <<>> THEN Some(zh_monthly_chance \o chance \o <<"%">>)
        ELSE IF key # <<>> THEN Some(zh_key_label \o LocGet(loc, key, <<>>) \o <<RQ>>)
        ELSE IF modifier # <<>>
             THEN Some(zh_modifier_label \o LocGet(loc, modifier, <<>>) \o <<RQ>>)
        ELSE IF type # <<>> THEN Some(zh_type_label \o LocGet(loc, type, <<>>) \o <<RQ>>)
        ELSE IF \E p \in NoisePrefixes : HasAt(s, 0, p) THEN Some(<<>>)
        ELSE None

\* None: the line is left to the generic renderer; Some(<<>>): the line is not
\* shown; Some(t): the sentence for the line.
humanize_code_line(line, loc) ==
    LET s == Strip(line, Whitespace)
        chance == MonthlyChanceValue(s)
        key == AssignmentValue(s, kw_key)
        modifier == AssignmentValue(s, kw_modifier)
        type == AssignmentValue(s, kw_type)
    IN  IF s = <<>> THEN Some(<<>>)
        ELSE IF chance # <<>> THEN Some(zh_monthly_chance \o chance \o <<"%">>)
        ELSE IF key # <<>> THEN Some(zh_key_label \o LocGet(loc, key, key) \o <<RQ>>)
        ELSE IF modifier # <<>>
             THEN Some(zh_modifier_label \o LocGet(loc, modifier, modifier) \o <<RQ>>)
        ELSE IF type # <<>> THEN Some(zh_type_label \o LocGet(loc, type, type) \o <<RQ>>)
        ELSE IF \E p \in NoisePrefixes : HasAt(s, 0, p) THEN Some(<<>>)
        ELSE None

\* ------------------------------------------------- the brace-matcher runs
BraceAlphabet == {"{", "}", "a"}

BraceBuffers == SeqsUpTo(BraceAlphabet, MaxLen)

BraceIdle == start_pos = NotFound /\ ret = NotFound

ExtractIdle ==
    /\ keyword = <<>>
    /\ block = None
    /\ pos = 0
    /\ res = <<>>
    /\ matched = <<>>
    /\ events = <<>>

RenderIdle ==
    /\ localization = <<>>
    /\ line_content = <<>>
    /\ human = None
    /\ text_in = <<>>
    /\ rtext = <<>>

PruneIdle ==
    /\ lines_in = <<>>
    /\ lines = <<>>
    /\ scan_i = 0
    /\ to_delete = {}
    /\ deleted_by = {}

WriteIdle ==
    /\ out_open = FALSE
    /\ out = <<>>
    /\ cur = 0
    /\ written = <<>>
    /\ starts = <<>>

InitBrace ==
    /\ pc = "brace_idle"
    /\ text \in BraceBuffers
    /\ BraceIdle
    /\ ExtractIdle
    /\ RenderIdle
    /\ PruneIdle
    /\ WriteIdle

\* A caller hands the matcher the index of a "{" of its buffer.
CallFindMatchingBrace ==
    /\ pc = "brace_idle"
    /\ \E i \in 0..(Len(text) - 1) :
          /\ Ch(text, i) = "{"
          /\ start_pos' = i
          /\ ret' = find_matching_brace(text, i)
    /\ pc' = "brace_done"
    /\ UNCHANGED <<renderVars, pruneVars, writeVars, text, extractVars>>

\* The same call on a prefix of the buffer that no longer holds the match.
CallOnTruncation ==
    /\ pc = "brace_done"
    /\ ret # NotFound
    /\ \E k \in (start_pos + 1)..ret :
          /\ text' = Slice(text, 0, k)
          /\ ret' = find_matching_brace(Slice(text, 0, k), start_pos)
    /\ pc' = "brace_truncated"
    /\ UNCHANGED <<renderVars, pruneVars, writeVars, start_pos, extractVars>>

NextBrace == CallFindMatchingBrace \/ CallOnTruncation

SpecBrace == InitBrace /\ [][NextBrace]_vars

\* The depth counter's value after the characters start..j: opens minus closes.
DepthAt(t, start, j) ==
    Cardinality({k \in start..j : Ch(t, k) = "{"})
        - Cardinality({k \in start..j : Ch(t, k) = "}"})

DepthZeroes(t, start) ==
    {j \in (start + 1)..(Len(t) - 1) : DepthAt(t, start, j) = 0}

\* C1: find_matching_brace(text, i) with text[i] = "{" is the smallest j > i at
\* which the depth counter is back at zero, and -1 when there is none; on a
\* prefix that cuts the closing brace off it is -1.
C1_BraceMatch ==
    /\ pc = "brace_done" =>
          IF DepthZeroes(text, start_pos) = {}
          THEN ret = NotFound
          ELSE /\ ret \in DepthZeroes(text, start_pos)
               /\ \A j \in DepthZeroes(text, start_pos) : ret <= j
    /\ pc = "brace_truncated" => ret = NotFound

\* A nested block was matched past an inner "}", and a truncation was answered.
C1_Witness ==
    /\ pc = "brace_truncated"
    /\ \E j \in (start_pos + 1)..(Len(text) - 1) : Ch(text, j) = "}"

\* ------------------------------------------------- the block-extractor runs
kw_trigger == <<"t", "r", "i", "g", "g", "e", "r">>

kw_immediate == <<"i", "m", "m", "e", "d", "i", "a", "t", "e">>

kw_dynamic_historical_event ==
    <<"d", "y", "n", "a", "m", "i", "c", "_", "h", "i", "s", "t", "o", "r", "i",
      "c", "a", "l", "_", "e", "v", "e", "n", "t">>

\* The keywords write_event hands to extract_block.
SectionKeywords == {kw_dynamic_historical_event, kw_trigger, kw_immediate}

\* The pieces the buffers are put together from.
ExtractFragments ==
    { <<"t", "r", "i", "g", "g", "e", "r", " ", "=", " ", "{">>,
      <<"a", "i", "_", "t", "r", "i", "g", "g", "e", "r", "=", "{">>,
      <<"o", "p", "t", "i", "o", "n", " ", "=", " ", "{">>,
      <<"h", "i", "s", "t", "o", "r", "i", "c", "a", "l", "_", "o", "p", "t",
        "i", "o", "n", " ", "=", " ", "{">>,
      <<"f", "l", "a", "v", "o", "r", "_", "f", "r", "a", ".", "1", " ", "=", " ", "{">>,
      <<"m", "y", "_", "f", "l", "a", "v", "o", "r", "_", "f", "r", "a", ".",
        "2", " ", "=", " ", "{">>,
      <<"\n", "\t", "a", " ", "=", " ", "b", "\n">>,
      <<"}">> }

RECURSIVE Concat(_)
Concat(ss) == IF ss = <<>> THEN <<>> ELSE Head(ss) \o Concat(Tail(ss))

ExtractBuffers == {Concat(fs) : fs \in SeqsUpTo(ExtractFragments, MaxFrags)}

InitExtract ==
    /\ pc = "extract_idle"
    /\ text \in ExtractBuffers
    /\ BraceIdle
    /\ ExtractIdle
    /\ RenderIdle
    /\ PruneIdle
    /\ WriteIdle

\* write_event's extract_block(block, <keyword>)
CallExtractBlock ==
    /\ pc = "extract_idle"
    /\ \E kw \in SectionKeywords :
          LET sp == extract_block_span(text, kw)
              r == extract_block(text, kw)
          IN  /\ keyword' = kw
              /\ block' = r
              /\ matched' = IF r.some
                            THEN <<[start |-> sp.val.start,
                                    brace_start |-> sp.val.brace_start,
                                    brace_end |-> sp.val.brace_end,
                                    text |-> r.val]>>
                            ELSE <<>>
    /\ pc' = "block_done"
    /\ UNCHANGED <<renderVars, pruneVars, writeVars, text, braceVars, pos, res, events>>

\* One pass of extract_option_blocks' loop that takes a block.
OptionBlockTaken ==
    /\ pc \in {"extract_idle", "options"}
    /\ OptionScan(text, pos).some
    /\ LET it == OptionScan(text, pos).val
       IN  /\ pos' = it.pos
           /\ res' = Append(res, it.option)
           /\ matched' = Append(matched, [start |-> it.start,
                                          brace_start |-> it.brace_start,
                                          brace_end |-> it.brace_end,
                                          text |-> it.block_text])
    /\ pc' = "options"
    /\ UNCHANGED <<renderVars, pruneVars, writeVars, text, braceVars, keyword, block, events>>

\* The pass that breaks out of the loop: extract_option_blocks returns res.
OptionScanEnds ==
    /\ pc \in {"extract_idle", "options"}
    /\ ~OptionScan(text, pos).some
    /\ pc' = "options_done"
    /\ UNCHANGED <<renderVars, pruneVars, writeVars, text, braceVars, extractVars>>

\* main's parse_events(code_text)
CallParseEvents ==
    /\ pc = "extract_idle"
    /\ events' = parse_events(text)
    /\ matched' = LET found == EventsFound(text, 0)
                  IN  [k \in 1..Len(found) |->
                         [start |-> found[k].start,
                          brace_start |-> found[k].brace_start,
                          brace_end |-> found[k].brace_end,
                          text |-> found[k].block]]
    /\ pc' = "events_done"
    /\ UNCHANGED <<renderVars, pruneVars, writeVars, text, braceVars, keyword, block, pos, res>>

NextExtract ==
    \/ CallExtractBlock
    \/ OptionBlockTaken
    \/ OptionScanEnds
    \/ CallParseEvents

SpecExtract == InitExtract /\ [][NextExtract]_vars

\* C5: no block is taken at a keyword (or event prefix) that is the tail of a
\* longer identifier: the character before the matched keyword is never a word
\* character.
C5_NoTailMatch ==
    \A k \in 1..Len(matched) :
        \/ matched[k].start = 0
        \/ Ch(text, matched[k].start - 1) \notin AsciiWordChars

\* C7: the blocks a repeated extraction returns (options of a body, events of a
\* document) do not overlap: each starts after the one before it has closed.
C7_NonOverlapping ==
    pc \in {"options", "options_done", "events_done"} =>
        \A a, b \in 1..Len(matched) :
            a < b => matched[a].brace_end < matched[b].brace_start

\* r is s without a run of characters of S at its start and at its end, the
\* longest such runs when r is not empty.
TrimOf(r, s, S) ==
    \E a \in 0..Len(s) : \E b \in a..Len(s) :
        /\ r = Slice(s, a, b)
        /\ \A k \in 0..(a - 1) : Ch(s, k) \in S
        /\ \A k \in b..(Len(s) - 1) : Ch(s, k) \in S
        /\ a < b => Ch(s, a) \notin S /\ Ch(s, b - 1) \notin S

BetweenBraces(m) == Slice(text, m.brace_start + 1, m.brace_end)

CutAtMatchingBraces(m) ==
    /\ Ch(text, m.brace_start) = "{"
    /\ DepthZeroes(text, m.brace_start) # {}
    /\ m.brace_end = Min(DepthZeroes(text, m.brace_start))

BodyDepthAt(t, p) == DepthAt(t, 0, p - 1)

\* C11: a block extract_block returns under a section keyword sits at brace
\* depth 0 of the body it was searched in; a keyword that occurs only inside a
\* nested block gives absent. Bodies that close a brace they never opened are
\* left aside.
C11_TopLevelOnly ==
    (/\ pc = "block_done"
     /\ block.some
     /\ \A p \in 0..matched[1].start : BodyDepthAt(text, p) >= 0) =>
        BodyDepthAt(text, matched[1].start) = 0

\* ------------------------------------------------------ the parse_events runs
\* Script documents: up to MaxEvents events one after another, whose numbers
\* read 2, 2 (written 02), 10 and 1, with bodies that tell them apart.
EventIdDigits == {<<"2">>, <<"0", "2">>, <<"1", "0">>, <<"1">>}

EventBodies == {<<>>, <<"a">>}

EventSnippets ==
    {EVENT_PREFIX \o <<".">> \o d \o <<" ", "=", " ", "{">> \o b \o <<"}", "\n">> :
        d \in EventIdDigits, b \in EventBodies}

EventDocs == {Concat(es) : es \in SeqsUpTo(EventSnippets, MaxEvents)}

InitEvents ==
    /\ pc = "extract_idle"
    /\ text \in EventDocs
    /\ BraceIdle
    /\ ExtractIdle
    /\ RenderIdle
    /\ PruneIdle
    /\ WriteIdle

NextEvents == CallParseEvents

SpecEvents == InitEvents /\ [][NextEvents]_vars

\* the event id written at a matched block's start, read off the document
IdAt(m) ==
    Slice(text, m.start, SkipWhile(text, m.start + Len(EVENT_PREFIX) + 1, Digits))

\* the events in the order the document has them
EventsInSourceOrder ==
    [k \in 1..Len(matched) |->
        [id |-> IdAt(matched[k]), num |-> EventNum(IdAt(matched[k])),
         block |-> matched[k].text]]

WithNum(es, n) == LET HasNum(e) == e.num = n IN SelectSeq(es, HasNum)

\* C6: parse_events returns the document's events in ascending order of the
\* number after the dot, compared as a number, and the events of one number
\* come out in the order the document has them.
C6_NumericStableOrder ==
    pc = "events_done" =>
        /\ Len(events) = Len(EventsInSourceOrder)
        /\ \A i, j \in 1..Len(events) : i < j => events[i].num <= events[j].num
        /\ \A k \in 1..Len(events) :
              WithNum(events, events[k].num)
                  = WithNum(EventsInSourceOrder, events[k].num)

\* A document with the ids .10, .2, .02 in that order: returned as .2, .02, .10
\* (the order of the id strings would be .02, .10, .2).
C6_Witness ==
    /\ pc = "events_done"
    /\ [k \in 1..Len(EventsInSourceOrder) |-> EventsInSourceOrder[k].id]
          = <<EVENT_PREFIX \o <<".", "1", "0">>, EVENT_PREFIX \o <<".", "2">>,
              EVENT_PREFIX \o <<".", "0", "2">>>>
    /\ [k \in 1..Len(events) |-> events[k].id]
          = <<EVENT_PREFIX \o <<".", "2">>, EVENT_PREFIX \o <<".", "0", "2">>,
              EVENT_PREFIX \o <<".", "1", "0">>>>
    /\ events[1].block # events[2].block

\* ------------------------------------------------------- the per-line runs
\* A localization table as load_all_localizations delivers it: keys to texts.
SampleLocalization ==
    (<<"k", "1">> :> <<"U+6CD5", "U+5170", "U+897F", "U+4E4B", "U+6625">>)
    @@ (<<"N", "A", "P">> :> <<"U+90A3", "U+4E0D", "U+52D2", "U+65AF">>)
    @@ (<<"n", "1">> :> <<"U+597D">>)
    @@ (<<"d", "1">> :> <<"U+7532", "\n", "\n", "U+4E59">>)
    @@ (<<"m", "1">> :> <<>>)
    @@ (<<"A", "F", "R">> :> <<"U+975E", "U+6D32">>)

Localizations == {<<>>, SampleLocalization}

\* Script lines: a name, an assignment sign with or without an opening brace,
\* and what follows on the line.
RenderHeads ==
    {<<"O", "R">>, <<"A", "N", "D">>, <<"N", "O", "T">>, <<"h", "a", "s", "_", "r", "u", "l", "e", "r">>, <<"r", "u", "l", "e", "r", " ", "?">>, <<"m", "o", "n", "t", "h", "l", "y", "_", "c", "h", "a", "n", "c", "e">>,
     <<"s", "a", "v", "e", "_", "s", "c", "o", "p", "e", "_", "a", "s">>, <<"k", "e", "y">>, <<"i", "n", "_", "u", "n", "i", "o", "n", "_", "w", "i", "t", "h">>,
     kw_modifier, kw_type, noise1, noise2, noise3, <<"k", "e", "y", "w", "o", "r", "d">>, <<"s", "a", "v", "e", "_", "s", "c", "o", "p", "e", "_", "a", "s", "_", "x">>}

RenderJoins == {<<" ", "=", " ">>, <<"=">>, <<" ", "=", " ", "{", " ">>, <<" ", "=", " ", "{">>}

RenderTails ==
    {<<>>, <<"y", "e", "s">>, <<"h", "a", "s", "_", "r", "u", "l", "e", "r", " ", "=", " ", "y", "e", "s">>, <<"h", "a", "s", "_", "r", "u", "l", "e", "r", " ", "=", " ", "y", "e", "s", " ", "}">>, <<"k", "1">>,
     <<"c", ":", "N", "A", "P">>, <<"-", "1", "0">>, <<"c", ":", "N", "A", "P", " ", "}">>,
     <<"s", "c", "o", "p", "e", ":", "x">>, <<"c", ":", "A", "F", "R">>}

\* content = raw.strip() of a line that is not blank
RenderContents ==
    {Strip(h \o j \o t, Whitespace) :
        h \in RenderHeads, j \in RenderJoins, t \in RenderTails}
    \cup {<<"}">>, <<"{">>}

InitRender ==
    /\ pc = "line_read"
    /\ text = <<>>
    /\ BraceIdle
    /\ ExtractIdle
    /\ localization \in Localizations
    /\ line_content \in RenderContents
    /\ human = None
    /\ text_in = <<>>
    /\ rtext = <<>>
    /\ PruneIdle
    /\ WriteIdle

\* human = humanize_code_line(content, loc)
Classify ==
    /\ pc = "line_read"
    /\ human' = humanize_code_line(line_content, localization)
    /\ pc' = "classified"
    /\ UNCHANGED <<text, braceVars, extractVars, localization, line_content,
                   text_in, rtext, pruneVars, writeVars>>

\* human == "": the line is not shown
Suppress ==
    /\ pc = "classified"
    /\ human = Some(<<>>)
    /\ pc' = "suppressed"
    /\ UNCHANGED <<text, braceVars, extractVars, renderVars, pruneVars, writeVars>>

\* human is None: render_text, replace_colon_keys, translate_code_tokens
TranslateDeferred ==
    /\ pc = "classified"
    /\ human = None
    /\ text_in' = line_content
    /\ rtext' = translate_code_tokens(
                    replace_colon_keys(render_text(line_content, localization),
                                       localization))
    /\ pc' = "translated"
    /\ UNCHANGED <<text, braceVars, extractVars, localization, line_content,
                   human, pruneVars, writeVars>>

\* human is a sentence: translate_code_tokens(human)
TranslateHuman ==
    /\ pc = "classified"
    /\ human.some
    /\ human.val # <<>>
    /\ text_in' = human.val
    /\ rtext' = translate_code_tokens(human.val)
    /\ pc' = "translated"
    /\ UNCHANGED <<text, braceVars, extractVars, localization, line_content,
                   human, pruneVars, writeVars>>

\* text = beautify_logic_line(content, text)
Beautify ==
    /\ pc = "translated"
    /\ text_in' = rtext
    /\ rtext' = beautify_logic_line(line_content, rtext)
    /\ pc' = "beautified"
    /\ UNCHANGED <<text, braceVars, extractVars, localization, line_content,
                   human, pruneVars, writeVars>>

\* text = strip_braces(text)
StripBraces ==
    /\ pc = "beautified"
    /\ text_in' = rtext
    /\ rtext' = strip_braces(rtext)
    /\ pc' = "stripped"
    /\ UNCHANGED <<text, braceVars, extractVars, localization, line_content,
                   human, pruneVars, writeVars>>

\* the immediate section's second call: if text: text = beautify_logic_line(...)
BeautifyAgain ==
    /\ pc = "stripped"
    /\ rtext # <<>>
    /\ text_in' = rtext
    /\ rtext' = beautify_logic_line(line_content, rtext)
    /\ pc' = "beautified_again"
    /\ UNCHANGED <<text, braceVars, extractVars, localization, line_content,
                   human, pruneVars, writeVars>>

NextRender ==
    \/ Classify
    \/ Suppress
    \/ TranslateDeferred
    \/ TranslateHuman
    \/ Beautify
    \/ StripBraces
    \/ BeautifyAgain

SpecRender == InitRender /\ [][NextRender]_vars

\* the line is <kw> = { and nothing else, whatever whitespace it is written with
IsExactly(s, kw) ==
    LET NotSpace(c) == c \notin Whitespace
    IN  /\ HasAt(s, 0, kw)
        /\ SelectSeq(s, NotSpace) = kw \o <<"=", "{">>

\* C8: the beautifier turns a line into the phrase of OR, AND or NOT when the
\* line's source is exactly that header, and returns every other line's text
\* as it received it.
C8_HeaderOnly ==
    pc \in {"beautified", "beautified_again"} =>
        IF IsExactly(line_content, kw_OR) THEN rtext = zh_any_of
        ELSE IF IsExactly(line_content, kw_AND) THEN rtext = zh_all_of
        ELSE IF IsExactly(line_content, kw_NOT) THEN rtext = zh_none_of
        ELSE rtext = text_in

\* the prefix:key pairs of a line, each as [from, to, key]
ColonPairs(s) ==
    {[from |-> i, to |-> ColonKeyAt(s, i).val.end, key |-> ColonKeyAt(s, i).val.key] :
        i \in {j \in 0..(Len(s) - 1) : ColonKeyAt(s, j).some}}

\* C13: in the final text of a deferred line, a prefix:key pair whose key has
\* an entry in the localization table that is not empty stands as that entry
\* between corner brackets, and a pair whose key has none stands as it is
\* spelled in the source, whatever the prefix.
C13_ColonKeys ==
    (pc = "stripped" /\ human = None) =>
        \A m \in ColonPairs(line_content) :
            IF LocGet(localization, m.key, <<>>) # <<>>
            THEN Contains(rtext, Quoted(localization[m.key]))
            ELSE Contains(rtext, Slice(line_content, m.from, m.to))

\* the negation marker at index i stands alone: no word character touches it
StandaloneMarkerAt(s, i) ==
    /\ Ch(s, i) = zh_not[1]
    /\ BoundaryBefore(s, i)
    /\ BoundaryAfter(s, i + 1)

\* The line with its braces and question marks removed, its assignment signs
\* turned into colons and its standalone negation markers into the negated
\* wording; every other character as it is.
StructureStripped(s) ==
    Concat([k \in 1..Len(s) |->
        IF s[k] \in {"{", "}", "?"} THEN <<>>
        ELSE IF s[k] = "=" THEN <<":">>
        ELSE IF StandaloneMarkerAt(s, k - 1) THEN zh_not_satisfied
        ELSE <<s[k]>>])

\* C15: strip_braces removes the braces, turns "=" into ":", drops "?",
\* replaces the standalone negation marker by the negated wording and trims
\* the whitespace at the end; a marker character inside a name or a
\* description stays as it is.
C15_StripsStructureOnly ==
    pc = "stripped" => rtext = RStrip(StructureStripped(text_in), Whitespace)

\* The values a line gives a directive: the line is the directive's name, an
\* assignment sign with or without whitespace around it, and then a run of
\* characters of Of that is not empty and ends at the first character not in
\* Of or at the end of the line. At most one value fits.
DirectiveValues(s, name, Of) ==
    {Slice(s, v, e) : <<v, e>> \in
        {<<a, b>> \in (0..Len(s)) \X (0..Len(s)) :
            /\ a < b
            /\ HasAt(s, 0, name)
            /\ \E eq \in Len(name)..(a - 1) :
                  /\ Ch(s, eq) = "="
                  /\ \A k \in (Len(name)..(a - 1)) \ {eq} : Ch(s, k) \in Whitespace
            /\ \A k \in a..(b - 1) : Ch(s, k) \in Of
            /\ b < Len(s) => Ch(s, b) \notin Of}}

\* every character but whitespace and "#"
IdentifierChars(s) == {s[k] : k \in 1..Len(s)} \ (Whitespace \cup {"#"})

LabelledAs(s, name, label, loc) ==
    \A x \in DirectiveValues(s, name, IdentifierChars(s)) :
        human = Some(label \o LocGet(loc, x, x) \o <<RQ>>)

StartsWithNoise(s) == \E p \in NoisePrefixes : HasAt(s, 0, p)

\* C20: the classification of a line is decided by what the line starts
\* with. A monthly_chance with a number gives the sentence with that number;
\* key, modifier and type with an identifier give their label with the
\* identifier's localization value, or the identifier itself when it has
\* none; a line that starts with a noise prefix gives the empty result and no
\* text is computed for it; any other line is deferred.
C20_Classification ==
    /\ pc = "classified" =>
          /\ \A x \in DirectiveValues(line_content, kw_monthly_chance,
                                      Digits \cup {"-"}) :
                human = Some(zh_monthly_chance \o x \o <<"%">>)
          /\ LabelledAs(line_content, kw_key, zh_key_label, localization)
          /\ LabelledAs(line_content, kw_modifier, zh_modifier_label, localization)
          /\ LabelledAs(line_content, kw_type, zh_type_label, localization)
          /\ StartsWithNoise(line_content) => human = Some(<<>>)
          /\ (/\ DirectiveValues(line_content, kw_monthly_chance,
                                 Digits \cup {"-"}) = {}
              /\ \A n \in {kw_key, kw_modifier, kw_type} :
                    DirectiveValues(line_content, n,
                                    IdentifierChars(line_content)) = {}
              /\ ~StartsWithNoise(line_content)) => human = None
    /\ StartsWithNoise(line_content) =>
          pc \in {"line_read", "classified", "suppressed"}

\* A modifier whose identifier has no entry in the table was labelled with
\* the identifier itself.
C20_Witness ==
    /\ pc = "classified"
    /\ localization = <<>>
    /\ DirectiveValues(line_content, kw_modifier, IdentifierChars(line_content))
          = {<<"k", "1">>}
    /\ human = Some(zh_modifier_label \o <<"k", "1">> \o <<RQ>>)

\* ------------------------------------------------- the token translations
\* Lines that are one token: a subject, an intensity word and a sign word
\* joined by underscores, or a plain identifier.
TokenSubjects ==
    {<<"s", "t", "a", "b", "i", "l", "i", "t", "y">>, <<"c", "u", "l", "t", "u", "r", "a", "l", "_", "i", "n", "f", "l", "u", "e", "n", "c", "e">>, <<"f", "o", "o">>, <<"r", "u", "l", "e", "r">>, <<"t", "i", "e", "r", "2">>,
     <<"a", "_", "w", "e", "a", "k", "_", "b", "o", "n", "u", "s">>, <<"x", "_">>}

TokenLevelWords == LEVELS \cup {<<"h", "u", "g", "e">>, <<"M", "i", "l", "d">>}

TokenSignWords == SIGNS \cup {<<"m", "a", "l", "u", "s">>}

TokenLines ==
    {s \o <<"_">> \o lv \o <<"_">> \o sg :
        s \in TokenSubjects, lv \in TokenLevelWords, sg \in TokenSignWords}
    \cup {<<"h", "a", "s", "_", "r", "u", "l", "e", "r">>, <<"m", "i", "l", "d", "_", "b", "o", "n", "u", "s">>, <<"_", "m", "i", "l", "d", "_", "b", "o", "n", "u", "s">>, <<"s", "t", "a", "b", "i", "l", "i", "t", "y">>,
          <<"s", "t", "a", "b", "i", "l", "i", "t", "y", "_", "m", "i", "l", "d", "_", "b", "o", "n", "u", "s", "_", "x">>, <<"u", "n", "k", "n", "o", "w", "n", "_", "w", "o", "r", "d">>}

InitTokens ==
    /\ pc = "token_read"
    /\ text = <<>>
    /\ BraceIdle
    /\ ExtractIdle
    /\ localization = <<>>
    /\ line_content \in TokenLines
    /\ human = None
    /\ text_in = <<>>
    /\ rtext = <<>>
    /\ PruneIdle
    /\ WriteIdle

\* text = translate_code_tokens(text) on a line that is one token
TranslateToken ==
    /\ pc = "token_read"
    /\ text_in' = line_content
    /\ rtext' = translate_code_tokens(line_content)
    /\ pc' = "token_done"
    /\ UNCHANGED <<text, braceVars, extractVars, localization, line_content,
                   human, pruneVars, writeVars>>

NextTokens == TranslateToken

SpecTokens == InitTokens /\ [][NextTokens]_vars

\* the ways to read the token as subject, "_", intensity, "_", sign with the
\* subject drawn from the characters of S
CompositeReadings(token, S) ==
    {r \in [subject : {Slice(token, 0, n) : n \in 1..Len(token)},
            level : LEVELS, sign : SIGNS] :
        /\ token = r.subject \o <<"_">> \o r.level \o <<"_">> \o r.sign
        /\ \A k \in 1..Len(r.subject) : r.subject[k] \in S}

\* the text is the concatenation of the three parts' entries, a part without
\* an entry standing as it is
ConcatenatesParts(t, r) ==
    t = LocGet(SUBJECT_MAP, r.subject, r.subject)
            \o LocGet(LEVEL_MAP, r.level, r.level)
            \o LocGet(SIGN_MAP, r.sign, r.sign)

\* the token is rendered in parts when it has a reading with a subject of
\* the characters of S, and as a whole otherwise
RendersComposite(S) ==
    pc = "token_done" =>
        IF CompositeReadings(text_in, S) # {}
        THEN \A r \in CompositeReadings(text_in, S) : ConcatenatesParts(rtext, r)
        ELSE rtext = LocGet(CODE_TOKEN_MAP, text_in, text_in)

\* C14 as stated: a token subject_intensity_sign, whatever identifier the
\* subject is, is rendered as its three parts' forms in that order, before
\* any look-up of the whole token; every other token is looked up whole and
\* stands unchanged when it has no entry.
C14_CompositeAnySubject == RendersComposite(AsciiWordChars)

\* C14 as amended: the same for a subject made of letters and underscores; a
\* token whose subject has a digit is looked up whole like every other token.
C14_CompositeLetterSubject == RendersComposite(Letters_)

\* A token with a subject that has no entry was rendered in parts, the
\* subject standing as it is.
C14_Witness ==
    /\ pc = "token_done"
    /\ CompositeReadings(text_in, Letters_) # {}
    /\ \E r \in CompositeReadings(text_in, Letters_) :
          /\ r.subject \notin DOMAIN SUBJECT_MAP
          /\ rtext = r.subject \o LEVEL_MAP[r.level] \o SIGN_MAP[r.sign]

\* ---------------------------------------------------- cleanup_empty_scopes
\* lines[k] of a Python list
At(ls, k) == ls[k + 1]

\* re.match(r".*\?\s*=\s*\{", c)
opens_scope(c) ==
    \E q \in 0..(Len(c) - 1) :
        /\ Ch(c, q) = "?"
        /\ \A k \in 0..(q - 1) : Ch(c, k) # "\n"
        /\ LET eq == SkipWhile(c, q + 1, Whitespace)
               br == SkipWhile(c, eq + 1, Whitespace)
           IN  /\ eq < Len(c) /\ Ch(c, eq) = "="
               /\ br < Len(c) /\ Ch(c, br) = "{"

\* the inner while loop: the first j > i whose content is a lone "}", or n
first_lone_closer(ls, i) ==
    Min({j \in (i + 1)..(Len(ls) - 1) :
            Strip(At(ls, j).content, Whitespace) = <<"}">>} \cup {Len(ls)})

\* lines[k]["text"] and lines[k]["text"].strip()
is_visible(t) == t # <<>> /\ Strip(t, Whitespace) # <<>>

\* A test that counts every line with source text as visible.
has_source_between(ls, i, j) ==
    \E k \in (i + 1)..(j - 1) : At(ls, k).content # <<>>

\* the for loop over range(i + 1, j)
has_visible(ls, i, j) ==
    \E k \in (i + 1)..(j - 1) : is_visible(At(ls, k).text)

\* whether the pass of the outer while loop at i, whose inner loop stopped at j,
\* marks the scope opened at i
deletes_scope(ls, i, j) ==
    /\ opens_scope(Strip(At(ls, i).content, Whitespace))
    /\ j < Len(ls)
    /\ ~has_visible(ls, i, j)

\* A pass that marks a scope and stays at its opener.
ScopeStepRescanning(ls, st, j) ==
    IF deletes_scope(ls, st.i, j)
    THEN [i |-> st.i, to_delete |-> st.to_delete \cup (st.i)..j]
    ELSE [st EXCEPT !.i = @ + 1]

\* One pass of the outer while loop on [i, to_delete], with the inner loop's j.
ScopeStepTo(ls, st, j) ==
    IF deletes_scope(ls, st.i, j)
    THEN [i |-> j + 1, to_delete |-> st.to_delete \cup (st.i)..j]
    ELSE [st EXCEPT !.i = @ + 1]

ScopeStep(ls, st) == ScopeStepTo(ls, st, first_lone_closer(ls, st.i))

RECURSIVE ScopeScan(_, _)
ScopeScan(ls, st) ==
    IF st.i >= Len(ls) THEN st.to_delete ELSE ScopeScan(ls, ScopeStep(ls, st))

\* [info for idx, info in enumerate(lines) if idx not in to_delete]
RECURSIVE Without(_, _, _)
Without(ls, del, k) ==
    IF k >= Len(ls) THEN <<>>
    ELSE (IF k \in del THEN <<>> ELSE <<At(ls, k)>>) \o Without(ls, del, k + 1)

\* A removal that takes the marked indices out of the list one after another,
\* each index read against the list as the removals before it left it.
RECURSIVE RemovedOneByOne(_, _)
RemovedOneByOne(ls, del) ==
    IF del = {} THEN ls
    ELSE LET k == Min(del)
         IN  RemovedOneByOne(
                 IF k < Len(ls)
                 THEN [q \in 1..(Len(ls) - 1) |-> IF q <= k THEN ls[q] ELSE ls[q + 1]]
                 ELSE ls,
                 del \ {k})

\* lines[:] = new_lines, when to_delete is not empty
Rebuilt(ls, del) == IF del # {} THEN Without(ls, del, 0) ELSE ls

\* the list object after the call
cleanup_empty_scopes(ls) == Rebuilt(ls, ScopeScan(ls, [i |-> 0, to_delete |-> {}]))

\* ------------------------------------------- a line of the immediate block
\* raw[:len(raw) - len(raw.lstrip())]
LeadingOf(raw) == Slice(raw, 0, SkipWhile(raw, 0, Whitespace))

\* The text write_event computes for a line from what humanize_code_line
\* returned for it; None when human == "" (nothing is written for the line).
text_of(c, h, loc) ==
    IF h.some /\ h.val = <<>> THEN None
    ELSE Some(strip_braces(beautify_logic_line(c, translate_code_tokens(
                 IF h.some THEN h.val
                 ELSE replace_colon_keys(render_text(c, loc), loc)))))

\* The text of a line in the dynamic_historical_event, trigger and option
\* sections.
section_text(c, loc) == text_of(c, humanize_code_line(c, loc), loc)

\* the immediate section's: else: text = "", and if text: beautify_logic_line
beautified_again(c, st) ==
    IF st.some /\ st.val # <<>> THEN beautify_logic_line(c, st.val) ELSE <<>>

\* The text of a line in the immediate section.
immediate_text(c, loc) == beautified_again(c, section_text(c, loc))

\* the element appended to tmp_lines for a line that is not blank
immediate_line(line, loc) ==
    [leading |-> LeadingOf(RStrip(line, {"\r", "\n"})),
     content |-> Strip(line, Whitespace),
     text |-> immediate_text(Strip(line, Whitespace), loc)]

\* the stages of a line the classifier leaves to the pipeline, in their order
StagedText(c, loc) ==
    strip_braces(beautify_logic_line(c, translate_code_tokens(
        replace_colon_keys(render_text(c, loc), loc))))

\* C23: the text the immediate section computes for a line is the text the
\* dynamic_historical_event, trigger and option sections compute for it: for a
\* line left to the pipeline, the stages bracket macro, colon key, token
\* substitution, header beautification and stripping in that order; the
\* immediate section's further call of beautify_logic_line changes nothing. A
\* line that is not shown has no text in those sections and the empty text
\* in the immediate section.
C23_SameTextInAllSections ==
    LET elsewhere == section_text(line_content, localization)
        immediate == immediate_text(line_content, localization)
    IN  /\ pc = "suppressed" => ~elsewhere.some /\ immediate = <<>>
        /\ pc = "stripped" =>
              /\ elsewhere = Some(rtext)
              /\ immediate = rtext
              /\ human = None => rtext = StagedText(line_content, localization)
        /\ pc = "beautified_again" =>
              /\ rtext = text_in
              /\ elsewhere = Some(text_in)
              /\ immediate = rtext

\* The second call was made on a block header and on a block written on one
\* line, and returned what it was given.
C23_Witness ==
    /\ pc = "beautified_again"
    /\ IsBlockHeader(line_content, kw_OR)
    /\ rtext = text_in
    /\ \/ rtext = zh_any_of
       \/ /\ Find(line_content, "}", 0) # NotFound
          /\ rtext # zh_any_of

\* ----------------------------------------------------- the scope-pruner runs
MaxLines == 5

\* Lines of an immediate block: a scope opener, a directive that is not shown,
\* a condition, a closing brace, a scope written on one line, and the opener
\* of a block that is not shown.
PruneSource ==
    {<<"\t", "\t", "r", "u", "l", "e", "r", " ", "?", "=", " ", "{">>, <<"\t", "\t", "\t", "s", "a", "v", "e", "_", "s", "c", "o", "p", "e", "_", "a", "s", " ", "=", " ", "x">>, <<"\t", "\t", "\t", "h", "a", "s", "_", "r", "u", "l", "e", "r", " ", "=", " ", "y", "e", "s">>,
     <<"\t", "\t", "}">>, <<"\t", "\t", "r", "u", "l", "e", "r", " ", "?", "=", " ", "{", " ", "h", "a", "s", "_", "r", "u", "l", "e", "r", " ", "=", " ", "y", "e", "s", " ", "}">>,
     <<"\t", "\t", "\t", "e", "v", "e", "n", "t", "_", "i", "l", "l", "u", "s", "t", "r", "a", "t", "i", "o", "n", "_", "e", "s", "t", "a", "t", "e", "_", "e", "f", "f", "e", "c", "t", " ", "=", " ", "{">>}

\* the elements the immediate section's loop appends to tmp_lines for them
PruneLines == {immediate_line(src, SampleLocalization) : src \in PruneSource}

PruneLists == SeqsUpTo(PruneLines, MaxLines)

InitPrune ==
    /\ pc = "prune_scan"
    /\ text = <<>>
    /\ BraceIdle
    /\ ExtractIdle
    /\ RenderIdle
    /\ lines_in \in PruneLists
    /\ lines = lines_in
    /\ scan_i = 0
    /\ to_delete = {}
    /\ deleted_by = {}
    /\ WriteIdle

\* A pass of the while loop that marks a scope and jumps behind its closer.
PruneScope ==
    /\ pc = "prune_scan"
    /\ scan_i < Len(lines)
    /\ deletes_scope(lines, scan_i, first_lone_closer(lines, scan_i))
    /\ LET st == ScopeStep(lines, [i |-> scan_i, to_delete |-> to_delete])
       IN  /\ scan_i' = st.i
           /\ to_delete' = st.to_delete
           /\ deleted_by' = deleted_by \cup
                  {<<scan_i, k>> : k \in scan_i..first_lone_closer(lines, scan_i)}
    /\ UNCHANGED <<pc, text, braceVars, extractVars, renderVars, lines_in, lines,
                   writeVars>>

\* A pass that marks nothing: i += 1.
PruneNext ==
    /\ pc = "prune_scan"
    /\ scan_i < Len(lines)
    /\ ~deletes_scope(lines, scan_i, first_lone_closer(lines, scan_i))
    /\ scan_i' = ScopeStep(lines, [i |-> scan_i, to_delete |-> to_delete]).i
    /\ UNCHANGED <<pc, text, braceVars, extractVars, renderVars, lines_in, lines,
                   to_delete, deleted_by, writeVars>>

\* The loop is over: lines[:] = new_lines when something was marked.
PruneRebuild ==
    /\ pc = "prune_scan"
    /\ scan_i >= Len(lines)
    /\ lines' = Rebuilt(lines, to_delete)
    /\ pc' = "prune_done"
    /\ UNCHANGED <<text, braceVars, extractVars, renderVars, lines_in, scan_i,
                   to_delete, deleted_by, writeVars>>

NextPrune == PruneScope \/ PruneNext \/ PruneRebuild

SpecPrune == InitPrune /\ [][NextPrune]_vars

\* the openers of a list that have a lone closing brace after them
ClosedOpeners(ls) ==
    {p \in 0..(Len(ls) - 1) :
        /\ opens_scope(Strip(At(ls, p).content, Whitespace))
        /\ first_lone_closer(ls, p) < Len(ls)}

AllEmptyBetween(ls, p, q) ==
    \A k \in (p + 1)..(q - 1) : Strip(At(ls, k).text, Whitespace) = <<>>

\* C3: an opener whose lines up to the first lone closing brace all have empty
\* text is removed with those lines and that brace; an opener with a line of
\* text before that brace stays, and no line is removed on its account.
C3_ScopeRemovedIffEmpty ==
    pc = "prune_done" =>
        /\ lines = Without(lines_in, to_delete, 0)
        /\ to_delete = {d[2] : d \in deleted_by}
        /\ \A p \in ClosedOpeners(lines_in) :
              IF AllEmptyBetween(lines_in, p, first_lone_closer(lines_in, p))
              THEN \A k \in p..first_lone_closer(lines_in, p) : k \in to_delete
              ELSE /\ p \notin to_delete
                   /\ \A d \in deleted_by : d[1] # p

\* An opener with a condition and an inner scope that shows nothing: the
\* inner scope goes with the closing brace, the outer opener and the condition
\* stay.
C3_Witness ==
    /\ pc = "prune_done"
    /\ Len(lines_in) = 5
    /\ ClosedOpeners(lines_in) = {0, 2}
    /\ AllEmptyBetween(lines_in, 2, 4)
    /\ ~AllEmptyBetween(lines_in, 0, 4)
    /\ to_delete = {2, 3, 4}
    /\ lines = <<lines_in[1], lines_in[2]>>

\* C4: after the pruner no opener is left whose lines up to its closing brace
\* all have empty text.
C4_NoEmptyScopeLeft ==
    pc = "prune_done" =>
        \A p \in ClosedOpeners(lines) :
            ~AllEmptyBetween(lines, p, first_lone_closer(lines, p))

\* the indices of the input that are not marked, and the place each has among
\* them
Survivors == {k \in 0..(Len(lines_in) - 1) : k \notin to_delete}

PlaceAmongSurvivors(k) == Cardinality({q \in Survivors : q < k})

\* the list holds the input's unmarked lines, each as it was, in their order
HoldsSurvivorsInOrder ==
    /\ Len(lines) = Cardinality(Survivors)
    /\ \A k \in Survivors : At(lines, PlaceAmongSurvivors(k)) = At(lines_in, k)

LineDepth(c) == IF c = <<>> THEN 0 ELSE DepthAt(c, 0, Len(c) - 1)

\* the brace depth after line k, counted from the start of line p
RECURSIVE DepthFrom(_, _, _)
DepthFrom(ls, p, k) ==
    IF k < p THEN 0 ELSE DepthFrom(ls, p, k - 1) + LineDepth(At(ls, k).content)

\* the line on which the braces opened from line p on are closed again: p
\* itself for a scope written on one line, Len(ls) when they never are
StructuralCloser(ls, p) ==
    Min({k \in p..(Len(ls) - 1) : DepthFrom(ls, p, k) <= 0} \cup {Len(ls)})

\* C22: when the pruner deletes an opener line, none of the lines between it
\* and the line that closes its braces is left in the list with text to show.
C22_HeaderNotStripped ==
    pc = "prune_done" =>
        \A p \in to_delete :
            opens_scope(Strip(At(lines_in, p).content, Whitespace)) =>
                \A k \in (p + 1)..(StructuralCloser(lines_in, p) - 1) :
                    k \in to_delete \/ ~is_visible(At(lines_in, k).text)

\* ------------------------------------------------------------- write_event
\* re: \b<field>\s*=\s*([^\s#]+) tried at index p: group 1, or None
AssignmentKeyAt(t, p, field) ==
    IF ~(BoundaryBefore(t, p) /\ HasAt(t, p, field)) THEN None
    ELSE LET eq == SkipWhile(t, p + Len(field), Whitespace)
         IN  IF ~(eq < Len(t) /\ Ch(t, eq) = "=") THEN None
             ELSE LET v == SkipWhile(t, eq + 1, Whitespace)
                      e == SkipUntil(t, v, Whitespace \cup {"#"})
                  IN  IF e > v THEN Some(Slice(t, v, e)) ELSE None

get_assignment_key(b, field) ==
    LET hits == {p \in 0..(Len(b) - 1) : AssignmentKeyAt(b, p, field).some}
    IN  IF hits = {} THEN None ELSE AssignmentKeyAt(b, Min(hits), field)

\* "\n".join(lines)
RECURSIVE JoinLines(_)
JoinLines(ls) ==
    IF ls = <<>> THEN <<>>
    ELSE IF Len(ls) = 1 THEN ls[1]
    ELSE ls[1] \o <<"\n">> \o JoinLines(Tail(ls))

indent_lines(t) ==
    IF t = <<>> THEN <<>>
    ELSE LET ls == SplitLines(t)
         IN  JoinLines([k \in 1..Len(ls) |->
                 IF Strip(ls[k], Whitespace) # <<>>
                 THEN <<"\t">> \o Strip(ls[k], Whitespace)
                 ELSE <<>>])

\* The title line and the description and historical-note sections.
head_output(ev, loc) ==
    LET title_key == get_assignment_key(ev.block, kw_title)
        desc_key == get_assignment_key(ev.block, kw_desc)
        hist_key == get_assignment_key(ev.block, kw_historical_info)
        title_text_raw == IF title_key.some
                          THEN LocGet(loc, title_key.val, title_key.val)
                          ELSE ev.id
        desc_text == IF desc_key.some THEN LocGet(loc, desc_key.val, <<>>) ELSE <<>>
        hist_text == IF hist_key.some THEN LocGet(loc, hist_key.val, <<>>) ELSE <<>>
    IN  ev.id \o <<"-">> \o render_text(title_text_raw, loc) \o <<"\n">>
        \o (IF desc_text # <<>>
            THEN hdr_desc \o indent_lines(render_text(desc_text, loc)) \o <<"\n", "\n">>
            ELSE <<>>)
        \o (IF hist_text # <<>>
            THEN hdr_hist \o indent_lines(render_text(hist_text, loc)) \o <<"\n", "\n">>
            ELSE <<>>)

\* What the loop over a dynamic_historical_event, trigger or option block does
\* with a line whose text is st: the line written, if one is.
written_line(raw, st, section) ==
    IF Strip(raw, Whitespace) = <<>> \/ ~st.some THEN <<>>
    ELSE <<[section |-> section, leading |-> LeadingOf(raw),
            content |-> Strip(raw, Whitespace), text |-> st.val]>>

\* That loop: the lines it writes, each with the text it computed for it.
RECURSIVE section_lines(_, _, _)
section_lines(ls, loc, section) ==
    IF ls = <<>> THEN <<>>
    ELSE written_line(RStrip(Head(ls), {"\r", "\n"}),
                      section_text(Strip(Head(ls), Whitespace), loc), section)
         \o section_lines(Tail(ls), loc, section)

\* The immediate section's first loop: tmp_lines.
RECURSIVE tmp_lines(_, _)
tmp_lines(ls, loc) ==
    IF ls = <<>> THEN <<>>
    ELSE (IF Strip(Head(ls), Whitespace) = <<>> THEN <<>>
          ELSE <<immediate_line(Head(ls), loc)>>)
         \o tmp_lines(Tail(ls), loc)

\* Its second loop over the list: the lines it writes.
RECURSIVE shown_lines(_)
shown_lines(infos) ==
    IF infos = <<>> THEN <<>>
    ELSE (IF is_visible(Head(infos).text)
          THEN <<[section |-> "immediate", leading |-> Head(infos).leading,
                  content |-> Head(infos).content, text |-> Head(infos).text]>>
          ELSE <<>>)
         \o shown_lines(Tail(infos))

immediate_lines(b, loc) ==
    shown_lines(cleanup_empty_scopes(tmp_lines(SplitLines(b), loc)))

\* out.write("\t" + leading + text + "\n") for each of the lines
lines_output(ws) ==
    Concat([k \in 1..Len(ws) |-> <<"\t">> \o ws[k].leading \o ws[k].text \o <<"\n">>])

\* An option's heading line.
option_title(opt, loc) ==
    IF opt.name.some
    THEN opt.name.val \o <<"-">>
         \o render_text(LocGet(loc, opt.name.val, opt.name.val), loc) \o <<"\n">>
    ELSE hdr_option

\* the tabs in front of the option's first line that is not blank
option_leading(opt) ==
    LET full == {k \in 1..Len(opt.lines) : Strip(opt.lines[k], Whitespace) # <<>>}
    IN  IF full = {} THEN <<>>
        ELSE Slice(opt.lines[Min(full)], 0, SkipWhile(opt.lines[Min(full)], 0, {"\t"}))

tooltips_output(opt, loc) ==
    Concat([k \in 1..Len(opt.tooltips) |->
        <<"\t">> \o option_leading(opt)
        \o render_text(LocGet(loc, opt.tooltips[k], opt.tooltips[k]), loc)
        \o <<"\n">>])

\* What the loop over the options writes, and the script lines in it.
options_output(opts, loc) ==
    Concat([k \in 1..Len(opts) |->
        option_title(opts[k], loc) \o tooltips_output(opts[k], loc)
        \o lines_output(section_lines(opts[k].lines, loc, "option")) \o <<"\n">>])

options_lines(opts, loc) ==
    Concat([k \in 1..Len(opts) |-> section_lines(opts[k].lines, loc, "option")])

\* if <block>: false for None and for the empty string
Present(b) == b.some /\ b.val # <<>>

\* A section of script lines under its heading, closed by an empty line.
section_output(blk, hdr, ws) ==
    IF Present(blk) THEN hdr \o lines_output(ws) \o <<"\n">> ELSE <<>>

\* the script lines written for a dynamic_historical_event or trigger block
\* A section loop that runs the scope pruner over its lines.
block_lines_pruned(blk, loc, section) ==
    IF Present(blk)
    THEN cleanup_empty_scopes(section_lines(SplitLines(blk.val), loc, section))
    ELSE <<>>

block_lines(blk, loc, section) ==
    IF Present(blk) THEN section_lines(SplitLines(blk.val), loc, section) ELSE <<>>

\* the script lines written for the immediate block
immediate_block_lines(blk, loc) ==
    IF Present(blk) THEN immediate_lines(blk.val, loc) ELSE <<>>

\* everything write_event(out, event, loc) writes
write_event(ev, loc) ==
    head_output(ev, loc)
    \o section_output(extract_block(ev.block, kw_dynamic_historical_event), hdr_dhe,
           block_lines(extract_block(ev.block, kw_dynamic_historical_event), loc, "dhe"))
    \o section_output(extract_block(ev.block, kw_trigger), hdr_trigger,
           block_lines(extract_block(ev.block, kw_trigger), loc, "trigger"))
    \o section_output(extract_block(ev.block, kw_immediate), hdr_immediate,
           immediate_block_lines(extract_block(ev.block, kw_immediate), loc))
    \o options_output(extract_option_blocks(ev.block), loc)
    \o <<"\n", "\n">>

\* ------------------------------------------------------------ the main runs
MaxDocEvents == 2

MaxSections == 2

\* The parts an event body is made of.
BodyParts ==
    {<<"\t", "t", "i", "t", "l", "e", " ", "=", " ", "k", "1", "\n", "\t", "d", "e", "s", "c", " ", "=", " ", "d", "1", "\n", "\t", "h", "i", "s", "t", "o", "r", "i", "c", "a", "l", "_", "i", "n", "f", "o", " ", "=", " ", "n", "1", "\n">>,
     <<"\t", "d", "y", "n", "a", "m", "i", "c", "_", "h", "i", "s", "t", "o", "r", "i", "c", "a", "l", "_", "e", "v", "e", "n", "t", " ", "=", " ", "{", "\n", "\t", "\t", "t", "a", "g", " ", "=", " ", "F", "R", "A", "\n", "\t", "\t", "m", "o", "n", "t", "h", "l", "y", "_", "c", "h", "a", "n", "c", "e", " ", "=", " ", "1", "0", "\n", "\t", "}", "\n">>,
     <<"\t", "t", "r", "i", "g", "g", "e", "r", " ", "=", " ", "{", "\n", "\t", "\t", "O", "R", " ", "=", " ", "{", "\n", "\t", "\t", "\t", "h", "a", "s", "_", "r", "u", "l", "e", "r", " ", "=", " ", "y", "e", "s", "\n", "\t", "\t", "}", "\n", "\t", "\t", "r", "u", "l", "e", "r", " ", "?", "=", " ", "{", "\n", "\t", "\t", "\t", "s", "a", "v", "e", "_", "s", "c", "o", "p", "e", "_", "a", "s", " ", "=", " ", "x", "\n", "\t", "\t", "}", "\n", "\t", "}", "\n">>,
     <<"\t", "i", "m", "m", "e", "d", "i", "a", "t", "e", " ", "=", " ", "{", "\n", "\t", "\t", "r", "u", "l", "e", "r", " ", "?", "=", " ", "{", "\n", "\t", "\t", "\t", "s", "a", "v", "e", "_", "s", "c", "o", "p", "e", "_", "a", "s", " ", "=", " ", "x", "\n", "\t", "\t", "}", "\n", "\t", "\t", "a", "d", "d", "_", "s", "t", "a", "b", "i", "l", "i", "t", "y", " ", "=", " ", "s", "t", "a", "b", "i", "l", "i", "t", "y", "_", "m", "i", "l", "d", "_", "b", "o", "n", "u", "s", "\n", "\t", "}", "\n">>,
     <<"\t", "o", "p", "t", "i", "o", "n", " ", "=", " ", "{", "\n", "\t", "\t", "n", "a", "m", "e", " ", "=", " ", "n", "1", "\n", "\t", "\t", "a", "d", "d", "_", "s", "t", "a", "b", "i", "l", "i", "t", "y", " ", "=", " ", "s", "t", "a", "b", "i", "l", "i", "t", "y", "_", "m", "i", "l", "d", "_", "b", "o", "n", "u", "s", "\n", "\t", "\t", "c", "u", "s", "t", "o", "m", "_", "t", "o", "o", "l", "t", "i", "p", " ", "=", " ", "k", "1", "\n", "\t", "}", "\n">>}

EventBodiesOfParts == {Concat(ps) : ps \in SeqsUpTo(BodyParts, MaxSections)}

DigitChar(n) == CHOOSE c \in Digits : DigitValue(c) = n

\* the events of a document are numbered downwards
EventSource(k, body) ==
    EVENT_PREFIX \o <<".", DigitChar(MaxDocEvents + 1 - k)>>
    \o <<" ", "=", " ", "{", "\n">> \o body \o <<"}", "\n">>

\* Script files in which parse_events finds nothing: a comment, an event of
\* another country, an event whose brace is never closed.
ScriptsWithoutEvents ==
    {<<"#", " ", "f", "l", "a", "v", "o", "r", " ", "e", "v", "e", "n", "t", "s", "\n">>,
     <<"f", "l", "a", "v", "o", "r", "_", "e", "n", "g", ".", "1", " ", "=", " ", "{", "\n", "\t", "t", "i", "t", "l", "e", " ", "=", " ", "k", "1", "\n", "}", "\n">>,
     <<"f", "l", "a", "v", "o", "r", "_", "f", "r", "a", ".", "1", " ", "=", " ", "{", "\n", "\t", "t", "i", "t", "l", "e", " ", "=", " ", "k", "1", "\n">>}

MainDocs ==
    {Concat([k \in 1..Len(bs) |-> EventSource(k, bs[k])]) :
        bs \in SeqsUpTo(EventBodiesOfParts, MaxDocEvents)}
    \cup ScriptsWithoutEvents

Init ==
    /\ pc = "main_start"
    /\ text \in MainDocs
    /\ BraceIdle
    /\ ExtractIdle
    /\ RenderIdle
    /\ PruneIdle
    /\ WriteIdle

\* The script file is looked for under its two names, the upper-case one
\* first: is_file[k] is os.path.isfile of the k-th candidate. if not
\* code_path: return
MainLocate ==
    /\ pc = "main_start"
    /\ \E is_file \in [1..2 -> BOOLEAN] :
          pc' = IF \E k \in 1..2 : is_file[k] THEN "main_located"
                ELSE "main_not_found"
    /\ UNCHANGED <<text, braceVars, extractVars, renderVars, pruneVars, writeVars>>

\* A run that opens the output file before it looks at what parse_events
\* returned.
MainParseOpensFirst ==
    /\ pc = "main_located"
    /\ events' = parse_events(text)
    /\ out_open' = TRUE
    /\ pc' = IF parse_events(text) = <<>> THEN "main_no_events" ELSE "main_parsed"
    /\ UNCHANGED <<text, braceVars, keyword, block, pos, res, matched, renderVars,
                   pruneVars, out, cur, written, starts>>

\* events = parse_events(code_text); if not events: return
MainParse ==
    /\ pc = "main_located"
    /\ events' = parse_events(text)
    /\ pc' = IF parse_events(text) = <<>> THEN "main_no_events" ELSE "main_parsed"
    /\ UNCHANGED <<text, braceVars, keyword, block, pos, res, matched, renderVars,
                   pruneVars, writeVars>>

\* loc = load_all_localizations(GAME_ROOT); open(out_path, "w")
MainOpen ==
    /\ pc = "main_parsed"
    /\ localization' \in Localizations
    /\ out_open' = TRUE
    /\ pc' = "ev_next"
    /\ UNCHANGED <<text, braceVars, extractVars, line_content, human, text_in,
                   rtext, pruneVars, out, cur, written, starts>>

CurrentEvent == events[cur + 1]

\* write_event: the title line, the description and the historical note
WriteHead ==
    /\ pc = "ev_next"
    /\ cur < Len(events)
    /\ out' = out \o head_output(CurrentEvent, localization)
    /\ starts' = Append(starts, [from |-> Len(out), to |-> NotFound,
                                 lines |-> Len(written)])
    /\ pc' = "ev_dhe"
    /\ UNCHANGED <<text, braceVars, extractVars, renderVars, pruneVars, out_open,
                   cur, written>>

\* A section is written: its heading, its lines, an empty line.
WriteSection(blk, hdr, ws) ==
    /\ out' = out \o section_output(blk, hdr, ws)
    /\ written' = written \o ws

WriteDhe ==
    /\ pc = "ev_dhe"
    /\ WriteSection(extract_block(CurrentEvent.block, kw_dynamic_historical_event),
                    hdr_dhe,
                    block_lines(extract_block(CurrentEvent.block,
                                              kw_dynamic_historical_event),
                                localization, "dhe"))
    /\ pc' = "ev_trigger"
    /\ UNCHANGED <<text, braceVars, extractVars, renderVars, pruneVars, out_open,
                   cur, starts>>

WriteTrigger ==
    /\ pc = "ev_trigger"
    /\ WriteSection(extract_block(CurrentEvent.block, kw_trigger), hdr_trigger,
                    block_lines(extract_block(CurrentEvent.block, kw_trigger),
                                localization, "trigger"))
    /\ pc' = "ev_immediate"
    /\ UNCHANGED <<text, braceVars, extractVars, renderVars, pruneVars, out_open,
                   cur, starts>>

WriteImmediate ==
    /\ pc = "ev_immediate"
    /\ WriteSection(extract_block(CurrentEvent.block, kw_immediate), hdr_immediate,
                    immediate_block_lines(extract_block(CurrentEvent.block,
                                                        kw_immediate),
                                          localization))
    /\ pc' = "ev_options"
    /\ UNCHANGED <<text, braceVars, extractVars, renderVars, pruneVars, out_open,
                   cur, starts>>

\* The loop over the options.
WriteOptionList(opts) ==
    /\ out' = out \o options_output(opts, localization)
    /\ written' = written \o options_lines(opts, localization)

WriteOptions ==
    /\ pc = "ev_options"
    /\ WriteOptionList(extract_option_blocks(CurrentEvent.block))
    /\ pc' = "ev_end"
    /\ UNCHANGED <<text, braceVars, extractVars, renderVars, pruneVars, out_open,
                   cur, starts>>

\* out.write("\n\n"), and write_event returns to main's loop
WriteEnd ==
    /\ pc = "ev_end"
    /\ out' = out \o <<"\n", "\n">>
    /\ starts' = [starts EXCEPT ![Len(starts)].to = Len(out) + 2]
    /\ cur' = cur + 1
    /\ pc' = "ev_next"
    /\ UNCHANGED <<text, braceVars, extractVars, renderVars, pruneVars, out_open,
                   written>>

\* the loop over the events is over
MainDone ==
    /\ pc = "ev_next"
    /\ cur = Len(events)
    /\ pc' = "main_done"
    /\ UNCHANGED <<text, braceVars, extractVars, renderVars, pruneVars, writeVars>>

Next ==
    \/ MainLocate
    \/ MainParse
    \/ MainOpen
    \/ WriteHead
    \/ WriteDhe
    \/ WriteTrigger
    \/ WriteImmediate
    \/ WriteOptions
    \/ WriteEnd
    \/ MainDone

Spec == Init /\ [][Next]_vars

\* C2: every script line that write_event writes has a text that is not empty.
C2_NoEmptyTextWritten ==
    \A k \in 1..Len(written) : written[k].text # <<>>

\* what the event written k-th put into the output
OutputOf(k) == Slice(out, starts[k].from, starts[k].to)

\* the line breaks an output ends with: the one that ends its last line, and
\* one for each blank line after it
TrailingBreaks(s) == Len(s) - Len(RStrip(s, {"\n"}))

\* C10: an event that is followed by another one ends with two blank lines.
C10_TwoBlankLines ==
    \A k \in 1..(Len(starts) - 1) : TrailingBreaks(OutputOf(k)) = 1 + 2

\* the script lines written for the event written k-th
LinesOf(k) ==
    SubSeq(written, starts[k].lines + 1,
           IF k < Len(starts) THEN starts[k + 1].lines ELSE Len(written))

InSection(ws, s) ==
    LET OfSection(w) == w.section = s
    IN  SelectSeq(ws, OfSection)

ContentsOf(ws) == [k \in 1..Len(ws) |-> ws[k].content]

SectionRank(s) ==
    CASE s = "dhe" -> 1 [] s = "trigger" -> 2 [] s = "immediate" -> 3
      [] s = "option" -> 4

\* the source lines of a section that are shown when nothing is pruned: those
\* that are not blank and that humanize_code_line does not suppress, in the
\* order of the source
ShownUnpruned(ls, loc) ==
    LET Shown(l) == /\ Strip(l, Whitespace) # <<>>
                    /\ humanize_code_line(Strip(l, Whitespace), loc) # Some(<<>>)
        kept == SelectSeq(ls, Shown)
    IN  [k \in 1..Len(kept) |-> Strip(kept[k], Whitespace)]

\* the lines the scope pruner takes out of a list: every opener whose lines up
\* to its closing brace show nothing, with those lines and that brace
PrunedOf(infos) ==
    UNION {p..first_lone_closer(infos, p) :
              p \in {q \in ClosedOpeners(infos) :
                        AllEmptyBetween(infos, q, first_lone_closer(infos, q))}}

\* the source lines of a section that are shown after pruning: those the
\* pruner leaves and whose text can be seen, from the k-th on
RECURSIVE ShownPrunedFrom(_, _, _)
ShownPrunedFrom(infos, del, k) ==
    IF k > Len(infos) THEN <<>>
    ELSE (IF (k - 1) \notin del /\ is_visible(infos[k].text)
          THEN <<infos[k].content>> ELSE <<>>)
         \o ShownPrunedFrom(infos, del, k + 1)

ShownPruned(infos) == ShownPrunedFrom(infos, PrunedOf(infos), 1)

Positions(s, sub) == {p \in 0..(Len(s) - Len(sub)) : HasAt(s, p, sub)}

SectionHeadings == <<hdr_desc, hdr_hist, hdr_dhe, hdr_trigger, hdr_immediate>>

\* what the options of an event look like in the output when their script
\* lines are ws: for each option its title, its tooltips, its lines and an
\* empty line
RECURSIVE OptionsText(_, _, _)
OptionsText(opts, ws, loc) ==
    IF opts = <<>> THEN <<>>
    ELSE LET n == Len(ShownUnpruned(Head(opts).lines, loc))
         IN  option_title(Head(opts), loc) \o tooltips_output(Head(opts), loc)
             \o lines_output(SubSeq(ws, 1, n)) \o <<"\n">>
             \o OptionsText(Tail(opts), SubSeq(ws, n + 1, Len(ws)), loc)

\* the script lines of section s of event ev are those of the block blk, in
\* the order of the source, and stand in the output o under the heading hdr
SectionInOrder(o, ws, blk, hdr, loc) ==
    IF Present(blk)
    THEN /\ ContentsOf(ws) = ShownUnpruned(SplitLines(blk.val), loc)
         /\ Contains(o, hdr \o lines_output(ws) \o <<"\n">>)
    ELSE ws = <<>> /\ ~Contains(o, hdr)

ImmediateInOrder(o, ws, blk, loc) ==
    IF Present(blk)
    THEN /\ ContentsOf(ws) = ShownPruned(tmp_lines(SplitLines(blk.val), loc))
         /\ Contains(o, hdr_immediate \o lines_output(ws) \o <<"\n">>)
    ELSE ws = <<>> /\ ~Contains(o, hdr_immediate)

OptionsLast(o, optstext) ==
    /\ HasAt(o, Len(o) - Len(optstext) - 2, optstext \o <<"\n", "\n">>)
    /\ \A h \in 1..Len(SectionHeadings) :
          \A p \in Positions(o, SectionHeadings[h]) :
              p + Len(SectionHeadings[h]) <= Len(o) - Len(optstext) - 2

EventInOrder(o, ev, ws, loc) ==
    /\ HasAt(o, 0, ev.id \o <<"-">>)
    /\ \A h \in 1..Len(SectionHeadings) :
          /\ Cardinality(Positions(o, SectionHeadings[h])) <= 1
          /\ \A g \in 1..(h - 1) :
                \A p \in Positions(o, SectionHeadings[g]) :
                    \A q \in Positions(o, SectionHeadings[h]) : p < q
    /\ \A i, j \in 1..Len(ws) :
          i < j => SectionRank(ws[i].section) <= SectionRank(ws[j].section)
    /\ SectionInOrder(o, InSection(ws, "dhe"),
                      extract_block(ev.block, kw_dynamic_historical_event),
                      hdr_dhe, loc)
    /\ SectionInOrder(o, InSection(ws, "trigger"),
                      extract_block(ev.block, kw_trigger), hdr_trigger, loc)
    /\ ImmediateInOrder(o, InSection(ws, "immediate"),
                        extract_block(ev.block, kw_immediate), loc)
    /\ OptionsLast(o, OptionsText(extract_option_blocks(ev.block),
                                  InSection(ws, "option"), loc))

\* C16: an event is written as its title line, its description, its
\* historical note, the dynamic_historical_event, trigger and immediate
\* sections and then its options in the order of the source, each option as
\* its title, its tooltips and its lines; the lines of a section are in the
\* order of the source; only the immediate section is pruned.
C16_FixedOrder ==
    (pc = "ev_next" /\ cur >= 1) =>
        EventInOrder(OutputOf(cur), events[cur], LinesOf(cur), localization)

\* An event whose source has the immediate block in front of the trigger
\* block was written with the trigger section first; the empty scope of the
\* trigger section is shown and that of the immediate section is not.
C16_Witness ==
    /\ pc = "ev_next"
    /\ cur >= 1
    /\ Positions(events[cur].block, kw_immediate)  # {}
    /\ Positions(events[cur].block, kw_trigger) # {}
    /\ \A p \in Positions(events[cur].block, kw_immediate) :
          \A q \in Positions(events[cur].block, kw_trigger) : p < q
    /\ \A p \in Positions(OutputOf(cur), hdr_immediate) :
          \A q \in Positions(OutputOf(cur), hdr_trigger) : q < p
    /\ \E w \in 1..Len(LinesOf(cur)) :
          /\ LinesOf(cur)[w].section = "trigger"
          /\ opens_scope(LinesOf(cur)[w].content)
    /\ \A w \in 1..Len(LinesOf(cur)) :
          LinesOf(cur)[w].section = "immediate" => ~opens_scope(LinesOf(cur)[w].content)

\* the run has returned from main with an error message
MainFailed == pc \in {"main_not_found", "main_no_events"}

\* C17: a run that finds no script file, or no event in it, ends there with
\* nothing opened and nothing written; the output file is open only in runs
\* in which parse_events returned an event.
C17_NoOutputOnError ==
    /\ MainFailed => /\ ~out_open
                     /\ out = <<>>
                     /\ ~ENABLED Next
    /\ pc = "main_no_events" => parse_events(text) = <<>>
    /\ out_open => events # <<>>
    /\ out # <<>> => out_open

\* A script with text and no event in it: the run ended at the error.
C17_Witness ==
    /\ pc = "main_no_events"
    /\ text # <<>>
    /\ ~out_open

\* ------------------------------------------- the runs on unbalanced braces
\* Bodies and documents whose braces need not balance: up to MaxPieces pieces,
\* each a block opened and not closed, or a closing brace. The extractors and
\* write_event are each run on them.
MaxPieces == 4

UnbalancedPieces ==
    {<<"\t", "t", "r", "i", "g", "g", "e", "r", " ", "=", " ", "{", "\n", "\t", "\t", "a", " ", "=", " ", "b", "\n">>,
     <<"\t", "i", "m", "m", "e", "d", "i", "a", "t", "e", " ", "=", " ", "{", "\n", "\t", "\t", "c", " ", "=", " ", "d", "\n">>,
     <<"\t", "o", "p", "t", "i", "o", "n", " ", "=", " ", "{", "\n", "\t", "\t", "n", "a", "m", "e", " ", "=", " ", "n", "1", "\n", "\t", "\t", "e", " ", "=", " ", "f", "\n">>,
     <<"\t", "}", "\n">>,
     <<"f", "l", "a", "v", "o", "r", "_", "f", "r", "a", ".", "1", " ", "=", " ", "{", "\n">>,
     <<"f", "l", "a", "v", "o", "r", "_", "f", "r", "a", ".", "2", " ", "=", " ", "{", "\n">>}

UnbalancedBuffers == {Concat(fs) : fs \in SeqsUpTo(UnbalancedPieces, MaxPieces)}

InitUnbalanced ==
    /\ pc = "extract_idle"
    /\ text \in UnbalancedBuffers
    /\ BraceIdle
    /\ ExtractIdle
    /\ RenderIdle
    /\ PruneIdle
    /\ WriteIdle

\* write_event(out, event, loc) for an event whose block is the buffer
CallWriteEvent ==
    /\ pc = "extract_idle"
    /\ events' = <<[id |-> EVENT_PREFIX \o <<".", "1">>, num |-> 1, block |-> text]>>
    /\ localization' \in Localizations
    /\ out_open' = TRUE
    /\ pc' = "ev_next"
    /\ UNCHANGED <<text, braceVars, keyword, block, pos, res, matched, line_content,
                   human, text_in, rtext, pruneVars, out, cur, written, starts>>

NextUnbalanced ==
    \/ CallExtractBlock
    \/ OptionBlockTaken
    \/ OptionScanEnds
    \/ CallParseEvents
    \/ CallWriteEvent
    \/ WriteHead
    \/ WriteDhe
    \/ WriteTrigger
    \/ WriteImmediate
    \/ WriteOptions
    \/ WriteEnd
    \/ MainDone

SpecUnbalanced == InitUnbalanced /\ [][NextUnbalanced]_vars

\* the opening brace at index b is never closed
NeverClosed(t, b) == DepthZeroes(t, b) = {}

\* the opening brace of the first "kw = {" at or after index p, or NotFound
FirstOpening(t, kw, p) ==
    LET m == BlockPatternSearch(t, kw, p)
    IN  IF m.some THEN m.val.end - 1 ELSE NotFound

\* the indices at which an event's "flavor_fra.N =" starts and whose next
\* opening brace is closed
ClosedEventStarts(t) ==
    {s \in 0..(Len(t) - 1) :
        /\ EventPatternAt(t, s).some
        /\ Find(t, "{", EventPatternAt(t, s).val.end) # NotFound
        /\ ~NeverClosed(t, Find(t, "{", EventPatternAt(t, s).val.end))}

\* the section under kw is there to be shown: its first opening brace is
\* closed, and there is something other than line breaks in between
SectionShown(t, kw) ==
    /\ FirstOpening(t, kw, 0) # NotFound
    /\ ~NeverClosed(t, FirstOpening(t, kw, 0))
    /\ \E k \in (FirstOpening(t, kw, 0) + 1)..(Min(DepthZeroes(t, FirstOpening(t, kw, 0))) - 1) :
          Ch(t, k) \notin {"\r", "\n"}

\* C12: a brace that is never closed is not fatal. extract_block answers
\* absent for it; parse_events leaves that event out and keeps every event
\* whose brace is closed; extract_option_blocks stops at it and returns the
\* options taken before; write_event runs to its end and writes every section
\* whose own brace is closed, and none for the one that is not.
C12_UnbalancedNotFatal ==
    /\ (/\ pc = "block_done"
        /\ FirstOpening(text, keyword, 0) # NotFound
        /\ NeverClosed(text, FirstOpening(text, keyword, 0))) => ~block.some
    /\ pc = "events_done" =>
          /\ Len(events) = Cardinality(ClosedEventStarts(text))
          /\ \A s \in ClosedEventStarts(text) :
                \E k \in 1..Len(events) :
                    /\ HasAt(text, s, events[k].id)
                    /\ events[k].block =
                         Slice(text, Find(text, "{", EventPatternAt(text, s).val.end) + 1,
                               Min(DepthZeroes(text,
                                     Find(text, "{", EventPatternAt(text, s).val.end))))
    /\ pc \in {"options", "options_done"} =>
          /\ Len(res) = Len(matched)
          /\ \A k \in 1..Len(matched) : CutAtMatchingBraces(matched[k])
    /\ pc = "options_done" =>
          \/ FirstOpening(text, kw_option, pos) = NotFound
          \/ NeverClosed(text, FirstOpening(text, kw_option, pos))
    /\ pc \in {"ev_end", "main_done"} =>
          /\ Contains(out, hdr_trigger) <=> SectionShown(events[1].block, kw_trigger)
          /\ Contains(out, hdr_immediate) <=> SectionShown(events[1].block, kw_immediate)
          /\ Contains(out, hdr_dhe)
                <=> SectionShown(events[1].block, kw_dynamic_historical_event)
    /\ pc = "main_done" => Slice(out, Len(out) - 2, Len(out)) = <<"\n", "\n">>

\* write_event ran to its end on a body whose trigger brace is never closed,
\* and wrote the immediate section that follows it.
C12_Witness ==
    /\ pc = "main_done"
    /\ FirstOpening(events[1].block, kw_trigger, 0) # NotFound
    /\ NeverClosed(events[1].block, FirstOpening(events[1].block, kw_trigger, 0))
    /\ Contains(out, hdr_immediate)

\* ------------------------------------------------- the runs on option blocks
\* Option blocks of up to MaxOptionLines lines: a name, tooltips, effects, a
\* comment, an empty line, a name without a value; and two blocks one after
\* the other. extract_option_blocks and write_event are each run on them.
MaxOptionLines == 3

OptionLineKinds ==
    {<<"\t", "\t", "n", "a", "m", "e", " ", "=", " ", "n", "1", "\n">>,
     <<"\t", "\t", "c", "u", "s", "t", "o", "m", "_", "t", "o", "o", "l", "t", "i", "p", " ", "=", " ", "k", "1", " ", "#", " ", "s", "h", "o", "w", "n", "\n">>,
     <<"\t", "\t", "c", "u", "s", "t", "o", "m", "_", "t", "o", "o", "l", "t", "i", "p", "=", "n", "1", "\n">>,
     <<"\t", "\t", "a", " ", "=", " ", "b", "\n">>,
     <<"\t", "\t", "n", "a", "m", "e", "d", " ", "=", " ", "c", "\n">>,
     <<"\t", "\t", "#", " ", "n", "a", "m", "e", " ", "=", " ", "n", "2", "\n">>,
     <<"\n">>,
     <<"n", "a", "m", "e", " ", "=", "\n">>}

OptionSource(ls) == <<"\t", "o", "p", "t", "i", "o", "n", " ", "=", " ", "{", "\n">> \o Concat(ls) \o <<"\t", "}", "\n">>

OptionTexts ==
    {OptionSource(ls) : ls \in SeqsUpTo(OptionLineKinds, MaxOptionLines)}
    \cup {OptionSource(a) \o OptionSource(b) :
             a \in SeqsUpTo(OptionLineKinds, 1), b \in SeqsUpTo(OptionLineKinds, 1)}

InitOptions ==
    /\ pc = "extract_idle"
    /\ text \in OptionTexts
    /\ BraceIdle
    /\ ExtractIdle
    /\ RenderIdle
    /\ PruneIdle
    /\ WriteIdle

NextOptions ==
    \/ OptionBlockTaken
    \/ OptionScanEnds
    \/ CallWriteEvent
    \/ WriteHead
    \/ WriteDhe
    \/ WriteTrigger
    \/ WriteImmediate
    \/ WriteOptions
    \/ WriteEnd
    \/ MainDone

SpecOptions == InitOptions /\ [][NextOptions]_vars

\* the lines between the braces of a block, each without the whitespace
\* around it, the blank ones left out
SourceLinesOf(m) ==
    LET ls == SplitLines(BetweenBraces(m))
        NotBlank(l) == l # <<>>
    IN  SelectSeq([k \in 1..Len(ls) |-> Strip(ls[k], Whitespace)], NotBlank)

\* the line is of the form <field> = X
IsFieldLine(l, field) == Head(l) # "#" /\ AssignmentValue(l, field) # <<>>

ValuesOf(ls, field) ==
    LET OfField(l) == IsFieldLine(l, field)
        fl == SelectSeq(ls, OfField)
    IN  [k \in 1..Len(fl) |-> AssignmentValue(fl[k], field)]

BodyOf(ls) ==
    LET Other(l) == ~IsFieldLine(l, kw_name) /\ ~IsFieldLine(l, kw_custom_tooltip)
    IN  SelectSeq(ls, Other)

\* C18: of the lines of an option block, those of the form name = X and
\* custom_tooltip = X are taken out of the body and filed, the name and the
\* tooltip keys in the order of the source, and the body is the other lines
\* that are not blank, in the order of the source (compared without the
\* whitespace around them); an option that has no name line has no name, and
\* is written under the heading for options without one.
C18_OptionFields ==
    /\ pc \in {"options", "options_done"} =>
          \A k \in 1..Len(res) :
              LET ls == SourceLinesOf(matched[k])
              IN  /\ res[k].tooltips = ValuesOf(ls, kw_custom_tooltip)
                  /\ IF ValuesOf(ls, kw_name) = <<>> THEN res[k].name = None
                     ELSE res[k].name =
                            Some(ValuesOf(ls, kw_name)[Len(ValuesOf(ls, kw_name))])
                  /\ [j \in 1..Len(res[k].lines) |->
                         Strip(res[k].lines[j], Whitespace)] = BodyOf(ls)
    /\ pc = "options_done" =>
          Len(res) = Cardinality(Positions(text, kw_option \o <<" ", "=", " ", "{">>))
    /\ pc = "main_done" =>
          LET opts == extract_option_blocks(events[1].block)
          IN  /\ Contains(out, hdr_option) <=> \E k \in 1..Len(opts) : ~opts[k].name.some
              /\ \A k \in 1..Len(opts) :
                    opts[k].name.some => Contains(out, opts[k].name.val \o <<"-">>)

\* An option with a tooltip and a line of effects and no name was written
\* under the heading for options without a name.
C18_Witness ==
    /\ pc = "main_done"
    /\ Contains(out, hdr_option)
    /\ Len(extract_option_blocks(events[1].block)) = 1
    /\ Len(extract_option_blocks(events[1].block)[1].tooltips) = 1
    /\ Len(extract_option_blocks(events[1].block)[1].lines) = 1

\* the lines of a text, as they stand in it
SourceLinesIn(t) == {SplitLines(t)[k] : k \in 1..Len(SplitLines(t))}

\* C19: every script line written stands in the output as a tab, the leading
\* whitespace of its source line and its text; the first line of the body of
\* an option is no exception.
C19_LeadingKept ==
    \A k \in 1..Len(written) :
        /\ \E l \in SourceLinesIn(events[1].block) :
              /\ Strip(l, Whitespace) = written[k].content
              /\ LeadingOf(l) = written[k].leading
        /\ pc = "main_done" =>
              Contains(out, <<"\n", "\t">> \o written[k].leading \o written[k].text
                            \o <<"\n">>)

\* ------------------------------------------------------- the scanning loops
\* The two scanning loops, each run to its end: extract_option_blocks on a
\* buffer of fragments, braces balanced or not, and cleanup_empty_scopes on a
\* list of rendered lines.
InitLoops == InitExtract \/ InitPrune

NextLoops ==
    \/ OptionBlockTaken
    \/ OptionScanEnds
    \/ PruneScope
    \/ PruneNext
    \/ PruneRebuild

SpecLoops == InitLoops /\ [][NextLoops]_vars

\* what is left to scan: the characters from pos on, the lines from i on
LeftToScan(p, n) == IF p >= n THEN 0 ELSE n - p

\* A step of extract_option_blocks either leaves the loop or takes a block and
\* moves pos forward, to an index of the buffer or its length; a step of
\* cleanup_empty_scopes either leaves the loop, at i >= n and not before, or
\* moves i forward, to an index of the list or its length.
LoopProgress ==
    /\ pc \in {"extract_idle", "options"} =>
          \/ pc' = "options_done" /\ pos' = pos /\ res' = res
          \/ /\ pc' = "options"
             /\ Len(res') = Len(res) + 1
             /\ pos < pos' /\ pos' <= Len(text)
             /\ LeftToScan(pos', Len(text)) < LeftToScan(pos, Len(text))
    /\ pc = "prune_scan" =>
          \/ pc' = "prune_done" /\ scan_i >= Len(lines)
          \/ /\ pc' = "prune_scan"
             /\ scan_i < Len(lines)
             /\ scan_i < scan_i' /\ scan_i' <= Len(lines)
             /\ LeftToScan(scan_i', Len(lines)) < LeftToScan(scan_i, Len(lines))

\* C24: every pass of extract_option_blocks that finds a block moves the scan
\* position forward and every other pass leaves the loop; every pass of
\* cleanup_empty_scopes moves i forward and the loop is left when i reaches
\* the length of the list. What is left to scan is a natural number that
\* every pass makes smaller, so neither loop makes more passes than its input
\* has characters or lines.
C24_LoopsTerminate == [][LoopProgress]_vars

\* extract_option_blocks took a block, then met an option whose brace is
\* never closed, and returned.
C24_Witness ==
    /\ pc = "options_done"
    /\ Len(res) >= 1
    /\ BlockPatternSearch(text, kw_option, pos).some

====
